---- MODULE Spec2Model ----
(***************************************************************************)
(* RhythmBox: the Redis cache layer (src/src/cache_manager.py), the        *)
(* memoized Catalog Reader (src/src/music_crud.py) and the favorites       *)
(* routes (src/app.py) over the Favorites Store Adapter                    *)
(* (src/src/favorites_manager.py).                                         *)
(*                                                                         *)
(* Python values are tagged records: [t |-> "None"], [t |-> "int", i],     *)
(* [t |-> "str", s], [t |-> "obj", cls, addr], [t |-> "list", items],      *)
(* [t |-> "Track", id].  Redis payloads are strings (decode_responses).    *)
(* A Python call that may raise yields [val, raised].                      *)
(***************************************************************************)
EXTENDS Integers, Sequences, FiniteSets, TLC

VARIABLES
    kq,         \* key derivation under study: the call and the key produced
    redis,      \* the shared store: key -> [payload, ttl]
    up,         \* the store answers at this moment
    _enabled,   \* CacheManager._enabled, fixed by the constructor
    memo,       \* the memoized read in progress (cache_result.wrapper)
    prev,       \* the memoized read that completed before the current one
    inv,        \* the invalidating write in progress (invalidate_cache.wrapper)
    ret,        \* outcome of the last direct Cache Layer call
    lib,        \* the user's saved tracks as the external API holds them
    fav,        \* the last favorites request served: route, request, response
    adp         \* the last direct favorites adapter call: inputs and result

vars == <<kq, redis, up, _enabled, memo, prev, inv, ret, lib, fav, adp>>

-----------------------------------------------------------------------------
(* Bounds *)

MaxArgs == 2        \* positional arguments of a raw key_for input
MaxItems == 1       \* items in a list returned by a catalog read
MaxLib == 2         \* saved tracks in the user's library
MaxIds == 2         \* ids in a short list handed to check_saved_tracks

-----------------------------------------------------------------------------
(* Python values *)

PyNone == [t |-> "None"]
PyInt(i) == [t |-> "int", i |-> i]
PyStr(s) == [t |-> "str", s |-> s]
PyObj(cls, addr) == [t |-> "obj", cls |-> cls, addr |-> addr]
PyList(items) == [t |-> "list", items |-> items]
Track(id) == [t |-> "Track", id |-> id]
Artist(id) == [t |-> "Artist", id |-> id]
PyBool(b) == [t |-> "bool", b |-> b]

RECURSIVE Join(_, _)
Join(parts, sep) ==
    IF parts = <<>> THEN ""
    ELSE IF Len(parts) = 1 THEN parts[1]
    ELSE parts[1] \o sep \o Join(Tail(parts), sep)

\* str(x): decimal text of an int, the text itself for a str, the default
\* object repr (class and address) for an instance without __str__, the
\* dataclass repr for a Track or an Artist.
str(x) ==
    CASE x.t = "int" -> ToString(x.i)
      [] x.t = "str" -> x.s
      [] x.t = "obj" -> "<" \o x.cls \o " object at 0x" \o ToString(x.addr) \o ">"
      [] x.t \in {"Track", "Artist"} -> x.t \o "(id='" \o x.id \o "')"
      [] x.t = "None" -> "None"

-----------------------------------------------------------------------------
(* CacheManager._generate_key *)

\* Keyword names in Python string order.
KwNames == <<"artist_id", "k", "limit", "query">>

KwRank(k) == CHOOSE i \in 1..Len(KwNames) : KwNames[i] = k

sorted_asis(items) == items

RECURSIVE sorted(_)
\* sorted(kwargs.items()): the (name, value) pairs by ascending name; names
\* of one call are distinct.
sorted(items) ==
    IF items = <<>> THEN <<>>
    ELSE LET lo == CHOOSE i \in 1..Len(items) :
                       \A j \in 1..Len(items) : KwRank(items[i][1]) <= KwRank(items[j][1])
             rest == [j \in 1..(Len(items) - 1) |-> IF j < lo THEN items[j] ELSE items[j + 1]]
         IN  <<items[lo]>> \o sorted(rest)

key_parts(args, kwargs) ==
    [i \in 1..Len(args) |-> str(args[i])]
        \o [i \in 1..Len(kwargs) |-> sorted(kwargs)[i][1] \o "=" \o str(sorted(kwargs)[i][2])]

key_string(args, kwargs) == Join(key_parts(args, kwargs), "|")

\* hashlib.md5(...).hexdigest()[:16]: a function of the hashed string alone;
\* the digest is kept symbolic, so two keys agree exactly when the hashed
\* strings agree (no collision is modelled).
key_hash(s) == "md5_16(" \o s \o ")"

\* The key f"rhythmbox:{prefix}:{key_hash}", kept as its three fields.
_generate_key(prefix, args, kwargs) ==
    [ns |-> "rhythmbox", prefix |-> prefix, digest |-> key_hash(key_string(args, kwargs))]

-----------------------------------------------------------------------------
(* The memoized Catalog Reader operations (music_crud.py) *)

DefaultLimit == 20

\* The MusicCRUD instances alive in the process: the module-level `crud`
\* (app.py:247) and one built inside a request (app.py:426).
Instances == {PyObj("src.music_crud.MusicCRUD", 1), PyObj("src.music_crud.MusicCRUD", 2)}

Queries == {"abc"}
Limits == {DefaultLimit, 21}
ArtistIds == {"ar1"}

\* The ways Python lets a caller pass (query, limit) to
\* search_tracks(self, query, limit=20).
SearchCalls ==
    UNION {
      {[op |-> "search_tracks", args |-> <<self, PyStr(q), PyInt(l)>>, kwargs |-> <<>>],
       [op |-> "search_tracks", args |-> <<self, PyStr(q)>>, kwargs |-> << <<"limit", PyInt(l)>> >>],
       [op |-> "search_tracks", args |-> <<self>>,
            kwargs |-> << <<"query", PyStr(q)>>, <<"limit", PyInt(l)>> >>],
       [op |-> "search_tracks", args |-> <<self>>,
            kwargs |-> << <<"limit", PyInt(l)>>, <<"query", PyStr(q)>> >>]}
        \cup (IF l = DefaultLimit
              THEN {[op |-> "search_tracks", args |-> <<self, PyStr(q)>>, kwargs |-> <<>>]}
              ELSE {})
      : <<self, q, l>> \in Instances \X Queries \X Limits }

\* get_artist_details(self, artist_id)
ArtistCalls ==
    UNION {
      {[op |-> "artist_details", args |-> <<self, PyStr(a)>>, kwargs |-> <<>>],
       [op |-> "artist_details", args |-> <<self>>, kwargs |-> << <<"artist_id", PyStr(a)>> >>]}
      : <<self, a>> \in Instances \X ArtistIds }

MemoCalls == SearchCalls \cup ArtistCalls

\* Parameter names after self, and the defaults of the signature.
Params(op) ==
    CASE op \in {"search_tracks", "search_artists"} -> <<"query", "limit">>
      [] op = "related_artists" -> <<"artist_id", "limit">>
      [] OTHER -> <<"artist_id">>

\* limit = 10 of search_artists and get_related_artists
DefaultLimitArtists == 10

\* The default of the one defaulted parameter, limit.
Default(op) == IF op = "search_tracks" THEN DefaultLimit ELSE DefaultLimitArtists

HasKw(kwargs, name) == \E i \in 1..Len(kwargs) : kwargs[i][1] = name
KwValue(kwargs, name) == kwargs[CHOOSE i \in 1..Len(kwargs) : kwargs[i][1] = name][2]

\* Python's binding of a call to the parameters of the wrapped function:
\* the logical argument values the operation runs with.
Logical(call) ==
    [j \in 1..Len(Params(call.op)) |->
        IF Len(call.args) >= j + 1 THEN call.args[j + 1]
        ELSE IF HasKw(call.kwargs, Params(call.op)[j]) THEN KwValue(call.kwargs, Params(call.op)[j])
        ELSE PyInt(Default(call.op))]

\* Prefix given to @cache_result on each operation.
Prefix(op) == op

\* The key the wrapper uses (no key_func is configured anywhere):
\* _generate_key(prefix, *args, **kwargs) with self as first positional.
wrapper_key(call) == _generate_key(Prefix(call.op), call.args, call.kwargs)

-----------------------------------------------------------------------------
(* Raw key_for inputs *)

RawValues == {PyStr("a"), PyStr("b"), PyStr("a|b"), PyStr("k=v")}

RECURSIVE SeqsUpTo(_, _)
SeqsUpTo(S, n) ==
    IF n = 0 THEN {<<>>}
    ELSE SeqsUpTo(S, n - 1) \cup {Append(s, x) : s \in {q \in SeqsUpTo(S, n - 1) : Len(q) = n - 1}, x \in S}

RawKwargs ==
    {<<>>}
    \cup {<< <<n, v>> >> : n \in {"k", "limit"}, v \in {PyStr("v"), PyInt(5)}}
    \cup { << <<n[1], v>>, <<n[2], w>> >> :
             n \in {<<"k", "limit">>, <<"limit", "k">>}, v \in {PyStr("v"), PyInt(5)}, w \in {PyStr("v"), PyInt(5)} }

RawInputs ==
    {[op |-> "raw", prefix |-> "search", args |-> a, kwargs |-> k] :
        a \in SeqsUpTo(RawValues, MaxArgs), k \in RawKwargs}

KeyInputs ==
    RawInputs \cup {[op |-> c.op, prefix |-> Prefix(c.op), args |-> c.args, kwargs |-> c.kwargs] : c \in MemoCalls}

NoKey == [ns |-> "", prefix |-> "", digest |-> ""]

-----------------------------------------------------------------------------
(* JSON as used by CacheManager.set / CacheManager.get *)

\* json.dumps(value, default=str): JSON-native values are written as such;
\* anything else (a Track or Artist dataclass instance) is replaced by
\* str(value) and written as a JSON string.
RECURSIVE dumps(_)
dumps(v) ==
    CASE v.t = "None" -> "null"
      [] v.t = "int" -> ToString(v.i)
      [] v.t = "bool" -> IF v.b THEN "true" ELSE "false"
      [] v.t = "str" -> "\"" \o v.s \o "\""
      [] v.t = "list" -> "[" \o Join([i \in 1..Len(v.items) |-> dumps(v.items[i])], ", ") \o "]"
      [] OTHER -> "\"" \o str(v) \o "\""

Entities ==
    {Track("t" \o ToString(i)) : i \in 1..MaxItems}
        \cup {Artist("t" \o ToString(i)) : i \in 1..MaxItems}
        \cup {Artist(a) : a \in ArtistIds}

JsonAtoms == {PyNone} \cup {PyStr(str(e)) : e \in Entities}

\* The JSON documents of the model: what a payload can decode to.
JsonValues == JsonAtoms \cup {PyList(s) : s \in SeqsUpTo(JsonAtoms \ {PyNone}, MaxItems)}

\* json.loads(text) succeeds exactly on JSON text.
Decodable(text) == \E v \in JsonValues : dumps(v) = text

loads(text) == CHOOSE v \in JsonValues : dumps(v) = text

\* A payload that is not JSON, as another client of the shared store or a
\* truncated write leaves it.
Malformed == "{not json"

-----------------------------------------------------------------------------
(* CacheManager (cache_manager.py).  `live` says whether the store answers  *)
(* the ping of this call, `fault` whether the command issued after a       *)
(* successful ping raises (the store went away in between, or threw).      *)

Return(v, store) == [val |-> v, raised |-> FALSE, store |-> store]
Raise(store) == [val |-> PyNone, raised |-> TRUE, store |-> store]

\* Entries are [payload, ttl]; ttl = 0 stands for "no expiry".
NoExpiry == 0

enabled_latched(flag, live) == flag

\* CacheManager.enabled: the constructor's flag, then a ping whose
\* exception is caught.
enabled(flag, live) ==
    IF ~flag THEN FALSE
    ELSE IF live THEN TRUE
    ELSE FALSE

get_unguarded(store, flag, live, fault, key) ==
    IF ~enabled(flag, live) THEN Return(PyNone, store)
    ELSE IF fault THEN Raise(store)
    ELSE IF key \notin DOMAIN store \/ store[key].payload = "" THEN Return(PyNone, store)
    ELSE IF ~Decodable(store[key].payload) THEN Raise(store)
    ELSE Return(loads(store[key].payload), store)

get(store, flag, live, fault, key) ==
    IF ~enabled(flag, live) THEN Return(PyNone, store)
    ELSE IF fault THEN Return(PyNone, store)
    ELSE IF key \notin DOMAIN store \/ store[key].payload = "" THEN Return(PyNone, store)
    ELSE IF ~Decodable(store[key].payload) THEN Return(PyNone, store)
    ELSE Return(loads(store[key].payload), store)

EmptyStore == [k \in {} |-> [payload |-> "", ttl |-> 0]]

Put(store, key, entry) == [k \in DOMAIN store \cup {key} |-> IF k = key THEN entry ELSE store[k]]

Remove(store, keys) == [k \in DOMAIN store \ keys |-> store[k]]

set_dropped(store, flag, live, fault, key, value, ttl) == Return(PyBool(TRUE), store)

set_unguarded(store, flag, live, fault, key, value, ttl) ==
    IF ~enabled(flag, live) THEN Return(PyBool(FALSE), store)
    ELSE IF fault THEN Raise(store)
    ELSE Return(PyBool(TRUE), Put(store, key, [payload |-> dumps(value), ttl |-> ttl]))

\* `if ttl:` picks setex(key, ttl, serialized), else set(key, serialized).
set(store, flag, live, fault, key, value, ttl) ==
    IF ~enabled(flag, live) THEN Return(PyBool(FALSE), store)
    ELSE IF fault THEN Return(PyBool(FALSE), store)
    ELSE IF ttl # 0
         THEN Return(PyBool(TRUE), Put(store, key, [payload |-> dumps(value), ttl |-> ttl]))
         ELSE Return(PyBool(TRUE), Put(store, key, [payload |-> dumps(value), ttl |-> NoExpiry]))

delete(store, flag, live, fault, key) ==
    IF ~enabled(flag, live) THEN Return(PyBool(FALSE), store)
    ELSE IF fault THEN Return(PyBool(FALSE), store)
    ELSE Return(PyBool(TRUE), Remove(store, {key}))

\* Glob patterns are a run of literal key fields closed by "*".
Fields(key) == <<key.ns, key.prefix, key.digest>>

Matches(pattern, key) ==
    \A i \in 1..Len(pattern) : pattern[i] = "*" \/ pattern[i] = Fields(key)[i]

\* redis.keys(pattern)
keys(store, pattern) == {k \in DOMAIN store : Matches(pattern, k)}

delete_pattern_unguarded(store, flag, live, fault, pattern) ==
    IF ~enabled(flag, live) THEN Return(PyInt(0), store)
    ELSE IF fault THEN Raise(store)
    ELSE IF keys(store, pattern) # {}
         THEN Return(PyInt(Cardinality(keys(store, pattern))), Remove(store, keys(store, pattern)))
         ELSE Return(PyInt(0), store)

delete_pattern(store, flag, live, fault, pattern) ==
    IF ~enabled(flag, live) THEN Return(PyInt(0), store)
    ELSE IF fault THEN Return(PyInt(0), store)
    ELSE IF keys(store, pattern) # {}
         THEN Return(PyInt(Cardinality(keys(store, pattern))), Remove(store, keys(store, pattern)))
         ELSE Return(PyInt(0), store)

\* redis.flushdb() empties the whole database.
clear_all(store, flag, live, fault) ==
    IF ~enabled(flag, live) THEN Return(PyBool(FALSE), store)
    ELSE IF fault THEN Return(PyBool(FALSE), store)
    ELSE Return(PyBool(TRUE), EmptyStore)

\* round((hits / (hits + misses)) * 100, 2), in hundredths of a percent.
_calculate_hit_rate(hits, misses) ==
    IF hits + misses = 0 THEN 0
    ELSE (2 * hits * 10000 + (hits + misses)) \div (2 * (hits + misses))

\* The dict get_stats returns; info holds the counters the store reports.
get_stats(store, flag, live, fault, info) ==
    IF ~enabled(flag, live)
    THEN Return([enabled |-> FALSE, message |-> "Redis nao disponivel"], store)
    ELSE IF fault
    THEN Return([enabled |-> FALSE, error |-> "ConnectionError"], store)
    ELSE Return([enabled |-> TRUE,
                 total_keys |-> Cardinality(keys(store, <<"rhythmbox", "*">>)),
                 keyspace_hits |-> info.hits,
                 keyspace_misses |-> info.misses,
                 hit_rate |-> _calculate_hit_rate(info.hits, info.misses),
                 memory_used |-> "N/A",
                 connected_clients |-> 1], store)

-----------------------------------------------------------------------------
(* The Catalog Reader operations (music_crud.py) *)

\* The items of a response whose n items all convert.
GoodItems(n) == [i \in 1..n |-> [id |-> "t" \o ToString(i), bad |-> FALSE]]

\* What the external API does with a request: ok = FALSE is a
\* request-level failure (the client raises); items are the entries of the
\* response, bad marking one whose conversion raises.
Responses == {[ok |-> o, items |-> GoodItems(n)] : o \in BOOLEAN, n \in 0..MaxItems}

\* The value of a call that let an exception out.
Exception == [t |-> "exception"]

RECURSIVE from_spotify_data(_, _)
\* The per-item loop: from_spotify_data on each entry in order, an entry
\* that raises is logged and skipped.
from_spotify_data(cls, items) ==
    IF items = <<>> THEN <<>>
    ELSE IF Head(items).bad THEN from_spotify_data(cls, Tail(items))
    ELSE <<[t |-> cls, id |-> Head(items).id]>> \o from_spotify_data(cls, Tail(items))

\* search_tracks letting the client's exception out.
search_tracks_propagating(resp) ==
    IF ~resp.ok THEN Exception
    ELSE PyList(from_spotify_data("Track", resp.items))

\* MusicCRUD.search_tracks: the converted items, [] on any exception.
search_tracks(resp) ==
    IF ~resp.ok THEN PyList(<<>>)
    ELSE PyList(from_spotify_data("Track", resp.items))

\* MusicCRUD.search_artists
search_artists(resp) ==
    IF ~resp.ok THEN PyList(<<>>)
    ELSE PyList(from_spotify_data("Artist", resp.items))

\* MusicCRUD.get_artist_top_tracks
get_artist_top_tracks(resp) ==
    IF ~resp.ok THEN PyList(<<>>)
    ELSE PyList(from_spotify_data("Track", resp.items))

\* The per-item loop giving up at the first entry that raises.
related_artists_abort(resp, limit) ==
    IF ~resp.ok \/ \E i \in 1..Len(resp.items) : i <= limit /\ resp.items[i].bad
    THEN PyList(<<>>)
    ELSE PyList(from_spotify_data("Artist", SubSeq(resp.items, 1, IF limit < Len(resp.items) THEN limit ELSE Len(resp.items))))

\* MusicCRUD.get_related_artists: artists_data[:limit] is converted.
get_related_artists(resp, limit) ==
    IF ~resp.ok THEN PyList(<<>>)
    ELSE PyList(from_spotify_data("Artist",
                    SubSeq(resp.items, 1, IF limit < Len(resp.items) THEN limit ELSE Len(resp.items))))

\* MusicCRUD.get_artist_details: the Artist, None on empty data or exception.
get_artist_details(artist_id, resp) ==
    IF ~resp.ok THEN PyNone
    ELSE IF resp.items = <<>> THEN PyNone
    ELSE IF Head(resp.items).bad THEN PyNone
    ELSE Artist(artist_id)

\* f(*args, **kwargs) for the wrapped operation of a call.
f(call, resp) ==
    CASE call.op = "search_tracks" -> search_tracks(resp)
      [] call.op = "search_artists" -> search_artists(resp)
      [] call.op = "related_artists" -> get_related_artists(resp, Logical(call)[2].i)
      [] OTHER -> get_artist_details(Logical(call)[1].s, resp)

TTL_SEARCH == 300
TTL_ARTIST_DETAILS == 1800
TTL_RELATED_ARTISTS == 3600

\* Every operation decorated with the TTL of searches.
Ttl_search_only(op) == TTL_SEARCH

\* ttl argument of @cache_result on each operation.
Ttl(op) ==
    CASE op \in {"search_tracks", "search_artists"} -> TTL_SEARCH
      [] op = "related_artists" -> TTL_RELATED_ARTISTS
      [] OTHER -> TTL_ARTIST_DETAILS

crud == PyObj("src.music_crud.MusicCRUD", 1)

\* The memoized calls the routes of the running application issue.
RouteCalls ==
    {[op |-> "search_tracks", args |-> <<crud, PyStr("abc")>>, kwargs |-> <<>>],
     [op |-> "artist_details", args |-> <<crud, PyStr("ar1")>>, kwargs |-> <<>>]}

NoCall == [op |-> "none", args |-> <<>>, kwargs |-> <<>>]

MemoIdle ==
    [pc |-> "idle", call |-> NoCall, key |-> NoKey, cached |-> PyNone, result |-> PyNone,
     ret |-> PyNone, opCalls |-> 0, wrote |-> FALSE, failed |-> FALSE, raised |-> FALSE,
     quiet |-> FALSE, overtaken |-> "no"]

NoPrev == [valid |-> FALSE, call |-> NoCall, ret |-> PyNone, quiet |-> FALSE]

InvIdle ==
    [pc |-> "idle", pattern |-> <<>>, result |-> PyNone, ret |-> PyNone, trace |-> <<>>,
     probe |-> FALSE, failed |-> FALSE, raised |-> FALSE, wraised |-> FALSE]

NoRet == [op |-> "none", val |-> PyNone, raised |-> FALSE, live |-> FALSE, failed |-> FALSE]

NoKq == [op |-> "none", prefix |-> "", args |-> <<>>, kwargs |-> <<>>, key |-> NoKey, done |-> FALSE]

NoFav == [route |-> "none", req |-> [page |-> 1, limit |-> 20, sort |-> "default"],
          env |-> [page |-> "ok", total |-> "ok", all |-> "ok", at |-> 1],
          resp |-> [status |-> 0], calls |-> <<>>, api |-> <<>>]

NoAdp == [op |-> "none"]

\* A write took effect while read m held a computed result it had not yet
\* stored under a key of the write's pattern.
Overtaken(m, pattern, key_matches) ==
    IF m.pc = "set" /\ key_matches THEN [m EXCEPT !.overtaken = "write"] ELSE m

\* The invalidating wrapper that overtook read m has issued its
\* delete_pattern and returns.
Invalidated(m, i) ==
    IF m.overtaken = "write" /\ i.pc = "done" /\ i.probe /\ ~i.failed
    THEN [m EXCEPT !.overtaken = "returned"] ELSE m

\* A store failure or a change of the store by anyone else ends the quiet
\* period of the read in progress and of the one before it.
Disturbed(m) == [m EXCEPT !.quiet = FALSE]

-----------------------------------------------------------------------------
(* cache_result.wrapper, one action per step of the wrapper *)

\* A route calls a memoized operation.
MemoBegin(call) ==
    /\ memo.pc = "idle"
    /\ memo' = [MemoIdle EXCEPT !.pc = "probe", !.call = call, !.quiet = up]
    /\ UNCHANGED <<kq, lib, adp, fav, redis, up, _enabled, prev, inv, ret>>

\* `if not cache_manager or not cache_manager.enabled`, then the key.
MemoProbe ==
    /\ memo.pc = "probe"
    /\ IF ~enabled(_enabled, up)
       THEN memo' = [memo EXCEPT !.pc = "call_direct", !.failed = TRUE, !.quiet = FALSE]
       ELSE memo' = [memo EXCEPT !.pc = "get", !.key = wrapper_key(memo.call)]
    /\ UNCHANGED <<kq, lib, adp, fav, redis, up, _enabled, prev, inv, ret>>

\* Cache disabled: `return f(*args, **kwargs)`.
MemoCallDirect ==
    /\ memo.pc = "call_direct"
    /\ \E resp \in Responses :
          memo' = [memo EXCEPT !.pc = "done", !.result = f(memo.call, resp),
                               !.ret = f(memo.call, resp), !.opCalls = @ + 1]
    /\ UNCHANGED <<kq, lib, adp, fav, redis, up, _enabled, prev, inv, ret>>

\* `cached = cache_manager.get(cache_key)`; a hit returns it.
MemoGet ==
    /\ memo.pc = "get"
    /\ \E fault \in (IF up THEN BOOLEAN ELSE {FALSE}) :
          LET r == get(redis, _enabled, up, fault, memo.key)
              bad == ~up \/ fault
                     \/ (memo.key \in DOMAIN redis /\ redis[memo.key].payload # ""
                         /\ ~Decodable(redis[memo.key].payload))
          IN  /\ memo' = IF r.raised
                         THEN [memo EXCEPT !.pc = "done", !.raised = TRUE, !.failed = TRUE, !.quiet = FALSE]
                         ELSE IF r.val # PyNone
                         THEN [memo EXCEPT !.pc = "done", !.cached = r.val, !.ret = r.val]
                         ELSE [memo EXCEPT !.pc = "call", !.cached = r.val,
                                           !.failed = @ \/ bad,
                                           !.quiet = @ /\ ~(~up \/ fault)]
              /\ prev' = IF ~up \/ fault THEN Disturbed(prev) ELSE prev
    /\ UNCHANGED <<kq, lib, adp, fav, redis, up, _enabled, inv, ret>>

\* `result = f(*args, **kwargs)` after a miss.
MemoCall ==
    /\ memo.pc = "call"
    /\ \E resp \in Responses :
          LET result == f(memo.call, resp)
          IN  memo' = IF result # PyNone
                      THEN [memo EXCEPT !.pc = "set", !.result = result, !.opCalls = @ + 1]
                      ELSE [memo EXCEPT !.pc = "done", !.result = result, !.ret = result,
                                        !.opCalls = @ + 1]
    /\ UNCHANGED <<kq, lib, adp, fav, redis, up, _enabled, prev, inv, ret>>

\* `cache_manager.set(cache_key, result, ttl=ttl)`, then `return result`.
MemoSet ==
    /\ memo.pc = "set"
    /\ \E fault \in (IF up THEN BOOLEAN ELSE {FALSE}) :
          LET r == set(redis, _enabled, up, fault, memo.key, memo.result, Ttl(memo.call.op))
          IN  /\ redis' = r.store
              /\ memo' = IF r.raised
                         THEN [memo EXCEPT !.pc = "done", !.raised = TRUE, !.failed = TRUE, !.quiet = FALSE]
                         ELSE [memo EXCEPT !.pc = "done", !.ret = memo.result,
                                           !.wrote = (r.val = PyBool(TRUE)),
                                           !.failed = @ \/ ~up \/ fault,
                                           !.quiet = @ /\ ~(~up \/ fault)]
              /\ prev' = IF ~up \/ fault THEN Disturbed(prev) ELSE prev
    /\ UNCHANGED <<kq, lib, adp, fav, up, _enabled, inv, ret>>

\* The wrapper has returned; the route goes on.
MemoReturn ==
    /\ memo.pc = "done"
    /\ prev' = [valid |-> ~memo.raised, call |-> memo.call, ret |-> memo.ret, quiet |-> memo.quiet]
    /\ memo' = MemoIdle
    /\ UNCHANGED <<kq, lib, adp, fav, redis, up, _enabled, inv, ret>>

-----------------------------------------------------------------------------
(* invalidate_cache.wrapper, one action per step of the wrapper *)

\* Patterns a write is decorated with (docstring of invalidate_cache).
Patterns == {<<"rhythmbox", "search_tracks", "*">>, <<"rhythmbox", "*">>}

\* What the wrapped write does: it returns a value or raises.
WriteOutcomes == {[raised |-> FALSE, val |-> PyStr("playlist")],
                  [raised |-> FALSE, val |-> PyNone],
                  [raised |-> TRUE, val |-> PyNone]}

InvBegin(pattern) ==
    /\ inv.pc = "idle"
    /\ inv' = [InvIdle EXCEPT !.pc = "write", !.pattern = pattern]
    /\ UNCHANGED <<kq, lib, adp, fav, redis, up, _enabled, memo, prev, ret>>

InvWrite_swallow ==
    /\ inv.pc = "write"
    /\ \E out \in WriteOutcomes :
          /\ inv' = [inv EXCEPT !.pc = "probe", !.result = out.val, !.wraised = out.raised,
                                !.trace = Append(@, "write")]
          /\ memo' = IF out.raised THEN memo
                     ELSE Overtaken(memo, inv.pattern, Matches(inv.pattern, memo.key))
    /\ UNCHANGED <<kq, lib, adp, fav, redis, up, _enabled, prev, ret>>

\* `result = f(*args, **kwargs)`: an exception of the write leaves the
\* wrapper at once.
InvWrite ==
    /\ inv.pc = "write"
    /\ \E out \in WriteOutcomes :
          /\ inv' = IF out.raised
                    THEN [inv EXCEPT !.pc = "raised", !.raised = TRUE, !.wraised = TRUE,
                                     !.trace = Append(@, "write")]
                    ELSE [inv EXCEPT !.pc = "probe", !.result = out.val,
                                     !.trace = Append(@, "write")]
          /\ memo' = IF out.raised THEN memo
                     ELSE Overtaken(memo, inv.pattern, Matches(inv.pattern, memo.key))
    /\ UNCHANGED <<kq, lib, adp, fav, redis, up, _enabled, prev, ret>>

\* `if cache_manager and cache_manager.enabled`
InvProbe ==
    /\ inv.pc = "probe"
    /\ inv' = IF enabled(_enabled, up)
              THEN [inv EXCEPT !.pc = "delete", !.probe = TRUE]
              ELSE [inv EXCEPT !.pc = "done", !.ret = inv.result, !.failed = TRUE]
    /\ UNCHANGED <<kq, lib, adp, fav, redis, up, _enabled, memo, prev, ret>>

\* `cache_manager.delete_pattern(pattern)`, then `return result`.
InvDelete ==
    /\ inv.pc = "delete"
    /\ \E fault \in (IF up THEN BOOLEAN ELSE {FALSE}) :
          LET r == delete_pattern(redis, _enabled, up, fault, inv.pattern)
          IN  /\ redis' = r.store
              /\ inv' = IF r.raised
                        THEN [inv EXCEPT !.pc = "raised", !.raised = TRUE,
                                         !.trace = Append(@, "delete_pattern"),
                                         !.failed = TRUE]
                        ELSE [inv EXCEPT !.pc = "done", !.ret = inv.result,
                                         !.trace = Append(@, "delete_pattern"),
                                         !.failed = ~up \/ fault]
    /\ memo' = Disturbed(memo)
    /\ prev' = Disturbed(prev)
    /\ UNCHANGED <<kq, lib, adp, fav, up, _enabled, ret>>

InvReturn ==
    /\ inv.pc \in {"done", "raised"}
    /\ inv' = InvIdle
    /\ memo' = Invalidated(memo, inv)
    /\ UNCHANGED <<kq, lib, adp, fav, redis, up, _enabled, prev, ret>>

-----------------------------------------------------------------------------
(* The store and its other clients *)

StoreDown ==
    /\ up
    /\ up' = FALSE
    /\ memo' = Disturbed(memo)
    /\ prev' = Disturbed(prev)
    /\ UNCHANGED <<kq, lib, adp, fav, redis, _enabled, inv, ret>>

StoreUp ==
    /\ ~up
    /\ up' = TRUE
    /\ UNCHANGED <<kq, lib, adp, fav, redis, _enabled, memo, prev, inv, ret>>

\* The store drops an entry whose TTL has run out.
Expire(key) ==
    /\ key \in DOMAIN redis
    /\ redis[key].ttl # NoExpiry
    /\ redis' = Remove(redis, {key})
    /\ memo' = Disturbed(memo)
    /\ prev' = Disturbed(prev)
    /\ UNCHANGED <<kq, lib, adp, fav, up, _enabled, inv, ret>>

ForeignPayloads == {Malformed, "null", ""}

AppKeys == {wrapper_key(c) : c \in RouteCalls}

\* A key of another application in the same database.
OtherKey == [ns |-> "limiter", prefix |-> "ip", digest |-> "127.0.0.1"]

\* Another client of the shared store overwrites an entry.
ForeignWrite(key, payload) ==
    /\ up
    /\ IF key \in DOMAIN redis THEN redis[key].payload # payload ELSE TRUE
    /\ redis' = Put(redis, key, [payload |-> payload, ttl |-> NoExpiry])
    /\ memo' = Disturbed(memo)
    /\ prev' = Disturbed(prev)
    /\ UNCHANGED <<kq, lib, adp, fav, up, _enabled, inv, ret>>

-----------------------------------------------------------------------------
(* The running application: memoized reads, invalidating writes, the store *)

\* app.py builds CacheManager(redis_client) when the start-up ping answers
\* and CacheManager(None) when it does not.
Init ==
    /\ up \in BOOLEAN
    /\ _enabled = up
    /\ redis = EmptyStore
    /\ memo = MemoIdle
    /\ prev = NoPrev
    /\ inv = InvIdle
    /\ ret = NoRet
    /\ kq = NoKq
    /\ lib = <<>>
    /\ fav = NoFav
    /\ adp = NoAdp

Next ==
    \/ \E call \in RouteCalls : MemoBegin(call)
    \/ MemoProbe
    \/ MemoCallDirect
    \/ MemoGet
    \/ MemoCall
    \/ MemoSet
    \/ MemoReturn
    \/ \E pattern \in Patterns : InvBegin(pattern)
    \/ InvWrite
    \/ InvProbe
    \/ InvDelete
    \/ InvReturn
    \/ StoreDown
    \/ StoreUp
    \/ \E key \in AppKeys : Expire(key)
    \/ \E key \in AppKeys, payload \in ForeignPayloads : ForeignWrite(key, payload)

Spec == Init /\ [][Next]_vars

-----------------------------------------------------------------------------
(* Properties of the memoizing wrapper *)

\* The read that just finished and the one before it were the same call,
\* ran with the cache enabled and the store answering every command, and
\* nothing expired, invalidated or overwrote an entry since the first one
\* began.
QuietRepeat ==
    /\ memo.pc = "done"
    /\ memo.quiet
    /\ prev.valid
    /\ prev.quiet
    /\ prev.call = memo.call

C2_FallbackRunsOperationOnce ==
    (memo.pc = "done" /\ memo.failed)
        => /\ memo.opCalls = 1
           /\ memo.ret = memo.result
           /\ ~memo.raised

\* The store failed during set, after a probe and a get that it answered.
C2_Witness ==
    /\ memo.pc = "done"
    /\ memo.failed
    /\ memo.key # NoKey
    /\ memo.result # PyNone
    /\ ~memo.wrote
    /\ memo.opCalls = 1

IsEmptyOrNull(v) == v = PyNone \/ v = PyList(<<>>)

\* C3: the wrapper never writes an empty or null result: after the wrapped
\* operation returned an empty sequence or null, the wrapper has made no
\* successful set for that call.
C3_NoEmptyWrite ==
    (memo.pc = "done" /\ memo.opCalls = 1 /\ IsEmptyOrNull(memo.result)) => ~memo.wrote

\* C3, second half: an identical invocation after an empty or null result
\* calls the wrapped operation again.
C3_EmptyIsRecomputed ==
    (QuietRepeat /\ IsEmptyOrNull(prev.ret)) => memo.opCalls = 1

-----------------------------------------------------------------------------
(* Properties of the invalidating wrapper *)

Has(trace, e) == \E i \in 1..Len(trace) : trace[i] = e

\* C8 as stated: after the write, on any outcome (return or raise),
\* delete_pattern is issued whenever the cache is enabled.
C8_InvalidateOnAnyOutcome ==
    (inv.pc \in {"done", "raised"} /\ _enabled /\ up /\ ~inv.failed)
        => Has(inv.trace, "delete_pattern")

\* C8 amended: the write runs first; when it returns normally and the
\* wrapper's probe finds the cache enabled, delete_pattern is issued next;
\* when the write raises, the exception leaves the wrapper and no
\* delete_pattern is issued; delete_pattern never precedes the write.
C8_InvalidateAfterNormalWrite ==
    /\ inv.trace \in {<<>>, <<"write">>, <<"write", "delete_pattern">>}
    /\ inv.pc = "done" => (inv.probe <=> inv.trace = <<"write", "delete_pattern">>)
    /\ inv.wraised => (inv.pc = "raised" /\ inv.trace = <<"write">>)

C8_Witness ==
    /\ inv.pc = "done"
    /\ inv.probe
    /\ inv.trace = <<"write", "delete_pattern">>

\* C9: a store that is unreachable or throws during the wrapper's probe or
\* during delete_pattern does not change what the wrapper returns: it
\* returns the write's result and does not raise.
C9_InvalidationFailureKeepsResult ==
    (inv.pc \in {"done", "raised"} /\ inv.failed)
        => /\ inv.pc = "done"
           /\ ~inv.raised
           /\ inv.ret = inv.result

\* delete_pattern failed after the probe had found the cache enabled.
C9_Witness ==
    /\ inv.pc = "done"
    /\ inv.failed
    /\ inv.probe
    /\ inv.ret = PyStr("playlist")

-----------------------------------------------------------------------------
(* The Cache Layer called directly (the cache routes of app.py and any     *)
(* other caller of app.cache_manager)                                      *)

DirectKeys == AppKeys \cup {OtherKey}
DirectValues == {PyNone, PyList(<<>>), PyStr("x")}
DirectTtls == {NoExpiry, TTL_SEARCH}
DirectPatterns == Patterns \cup {<<"*">>}
Infos == [hits : {0, 3}, misses : {0, 1}]

Outcome(op, r, fault, bad) ==
    [op |-> op, val |-> r.val, raised |-> r.raised, live |-> up,
     failed |-> (~up \/ fault \/ bad)]

Faults == IF up THEN BOOLEAN ELSE {FALSE}

\* cache_manager.enabled
CallEnabled ==
    /\ ret' = Outcome("enabled", Return(PyBool(enabled(_enabled, up)), redis), FALSE, FALSE)
    /\ UNCHANGED <<kq, lib, adp, fav, redis, up, _enabled, memo, prev, inv>>

CallGet(key) ==
    /\ \E fault \in Faults :
          ret' = Outcome("get", get(redis, _enabled, up, fault, key), fault,
                         IF key \in DOMAIN redis
                         THEN redis[key].payload # "" /\ ~Decodable(redis[key].payload)
                         ELSE FALSE)
    /\ UNCHANGED <<kq, lib, adp, fav, redis, up, _enabled, memo, prev, inv>>

CallSet(key, value, ttl) ==
    /\ \E fault \in Faults :
          LET r == set(redis, _enabled, up, fault, key, value, ttl)
          IN  /\ ret' = Outcome("set", r, fault, FALSE)
              /\ redis' = r.store
    /\ UNCHANGED <<kq, lib, adp, fav, up, _enabled, memo, prev, inv>>

CallDelete(key) ==
    /\ \E fault \in Faults :
          LET r == delete(redis, _enabled, up, fault, key)
          IN  /\ ret' = Outcome("delete", r, fault, FALSE)
              /\ redis' = r.store
    /\ UNCHANGED <<kq, lib, adp, fav, up, _enabled, memo, prev, inv>>

CallDeletePattern(pattern) ==
    /\ \E fault \in Faults :
          LET r == delete_pattern(redis, _enabled, up, fault, pattern)
          IN  /\ ret' = Outcome("delete_pattern", r, fault, FALSE)
              /\ redis' = r.store
    /\ UNCHANGED <<kq, lib, adp, fav, up, _enabled, memo, prev, inv>>

CallClearAll ==
    /\ \E fault \in Faults :
          LET r == clear_all(redis, _enabled, up, fault)
          IN  /\ ret' = Outcome("clear_all", r, fault, FALSE)
              /\ redis' = r.store
    /\ UNCHANGED <<kq, lib, adp, fav, up, _enabled, memo, prev, inv>>

CallGetStats ==
    /\ \E fault \in Faults, info \in Infos :
          ret' = Outcome("get_stats", get_stats(redis, _enabled, up, fault, info), fault, FALSE)
    /\ UNCHANGED <<kq, lib, adp, fav, redis, up, _enabled, memo, prev, inv>>

\* Patterns a request to /api/cache/clear can carry: the default, a
\* narrower one, "*", and one of another application of the shared store.
ClearPatterns == DirectPatterns \cup {<<"limiter", "*">>}

\* The cache_clear route: "*" goes to clear_all, anything else to
\* delete_pattern; the answer carries success.
CacheClear(pattern) ==
    /\ \E fault \in Faults :
          LET r == IF pattern = <<"*">>
                   THEN clear_all(redis, _enabled, up, fault)
                   ELSE delete_pattern(redis, _enabled, up, fault, pattern)
              success == IF pattern = <<"*">> THEN r.val ELSE PyBool(r.val # PyInt(0))
          IN  /\ ret' = Outcome("cache_clear", [r EXCEPT !.val = success], fault, FALSE)
              /\ redis' = r.store
    /\ UNCHANGED <<kq, lib, adp, fav, up, _enabled, memo, prev, inv>>

NextCache ==
    \/ \E pattern \in ClearPatterns : CacheClear(pattern)
    \/ CallEnabled
    \/ \E key \in DirectKeys : CallGet(key)
    \/ \E key \in DirectKeys, value \in DirectValues, ttl \in DirectTtls : CallSet(key, value, ttl)
    \/ \E key \in DirectKeys : CallDelete(key)
    \/ \E pattern \in DirectPatterns : CallDeletePattern(pattern)
    \/ CallClearAll
    \/ CallGetStats
    \/ StoreDown
    \/ StoreUp
    \/ \E key \in DirectKeys : Expire(key)
    \/ \E key \in DirectKeys, payload \in ForeignPayloads : ForeignWrite(key, payload)

SpecCache == Init /\ [][NextCache]_vars

\* What each operation returns when it cannot use the store.
FailureValue(op) ==
    CASE op = "get" -> PyNone
      [] op = "delete_pattern" -> PyInt(0)
      [] OTHER -> PyBool(FALSE)

\* C6: no Cache Layer operation raises when the store is unreachable,
\* throws or holds a malformed payload: get returns absent, set, delete and
\* clear_all return false, delete_pattern returns 0, and stats returns a
\* record with enabled = false.
C6_CacheLayerNeverRaises ==
    /\ ~ret.raised
    /\ (ret.failed /\ ret.op \in {"get", "set", "delete", "delete_pattern", "clear_all"})
          => ret.val = FailureValue(ret.op)
    /\ (ret.failed /\ ret.op = "get_stats") => ret.val.enabled = FALSE

\* get met a malformed payload on a store that answered.
C6_Witness ==
    /\ ret.op = "get"
    /\ ret.failed
    /\ ret.live
    /\ ret.val = PyNone
    /\ \E k \in DOMAIN redis : redis[k].payload = Malformed

\* C7: whenever the store is reachable at the moment of the call,
\* is_enabled returns true, also when the store was unreachable at
\* application start and became reachable later.
C7_EnabledTracksLiveness ==
    (ret.op = "enabled" /\ ret.live) => ret.val = PyBool(TRUE)

-----------------------------------------------------------------------------
(* Key derivation on its own: one input, one call of _generate_key *)

InitKey ==
    /\ up = TRUE
    /\ _enabled = TRUE
    /\ redis = EmptyStore
    /\ memo = MemoIdle
    /\ prev = NoPrev
    /\ inv = InvIdle
    /\ ret = NoRet
    /\ lib = <<>>
    /\ fav = NoFav
    /\ adp = NoAdp
    /\ \E input \in KeyInputs :
          kq = [op |-> input.op, prefix |-> input.prefix, args |-> input.args, kwargs |-> input.kwargs,
                key |-> NoKey, done |-> FALSE]

\* cache_manager._generate_key(prefix, *args, **kwargs)
GenerateKey ==
    /\ ~kq.done
    /\ kq' = [kq EXCEPT !.key = _generate_key(kq.prefix, kq.args, kq.kwargs), !.done = TRUE]
    /\ UNCHANGED <<lib, adp, fav, redis, up, _enabled, memo, prev, inv, ret>>

NextKey == GenerateKey

SpecKey == InitKey /\ [][NextKey]_vars

\* C4: the key of a memoized Catalog Reader call depends only on the
\* operation and the logical argument values: every way of issuing the same
\* logical call (any MusicCRUD instance; positional, keyword or defaulted
\* arguments) has the key this call got.
C4_KeyDependsOnLogicalCallOnly ==
    (kq.done /\ kq.op # "raw")
        => \A c \in MemoCalls :
              (c.op = kq.op /\ Logical(c) = Logical(kq)) => wrapper_key(c) = kq.key

\* The orders in which a caller can supply the same keyword arguments.
Reorderings(s) ==
    {[i \in 1..Len(s) |-> s[p[i]]] :
        p \in {q \in [1..Len(s) -> 1..Len(s)] : \A i, j \in 1..Len(s) : q[i] = q[j] => i = j}}

\* C5: the key does not depend on the order in which the keyword arguments
\* are supplied: every reordering of the keyword arguments of a call, with
\* the same prefix and positional list, yields the key this call got.
C5_KeywordOrderIrrelevant ==
    kq.done => \A kw \in Reorderings(kq.kwargs) : _generate_key(kq.prefix, kq.args, kw) = kq.key

\* Two keyword arguments supplied in an order that is not the sorted one.
C5_Witness ==
    /\ kq.done
    /\ Len(kq.kwargs) = 2
    /\ kq.kwargs # sorted(kq.kwargs)
    /\ kq.key = _generate_key(kq.prefix, kq.args, sorted(kq.kwargs))

-----------------------------------------------------------------------------
(* Favorites Store Adapter (favorites_manager.py).  `how` is what happens   *)
(* to the call: "ok", "noauth" (no token), "raise" (the API call raises)   *)
(* or "empty" (the API answers with an empty envelope).                    *)

MAX_TRACKS_PER_REQUEST == 50
MaxPages == 1000

Min(a, b) == IF a < b THEN a ELSE b
Max(a, b) == IF a > b THEN a ELSE b

\* Python s[start:end] for 0 <= start.
Slice(s, start, end) == SubSeq(s, start + 1, Min(end, Len(s)))

\* The Track built from a saved item (id, name, artist of the dataclass;
\* album and the URLs are carried along unchanged and left out).
FavTrack(item) == [t |-> "Track", id |-> item.id, name |-> item.name, artist |-> item.artist]

\* Saved items the external API can hold.  The name may be null, the artist
\* is the joined string of artist names (empty when there is none); a bad
\* item is one whose conversion raises or whose track is null.
ItemPool ==
    {[id |-> "1", name |-> PyStr("b"), artist |-> PyStr("Y"), bad |-> FALSE],
     [id |-> "2", name |-> PyStr("A"), artist |-> PyStr("x"), bad |-> FALSE],
     [id |-> "3", name |-> PyStr("a"), artist |-> PyStr("X"), bad |-> FALSE],
     [id |-> "4", name |-> PyNone, artist |-> PyStr(""), bad |-> FALSE],
     [id |-> "5", name |-> PyStr("b"), artist |-> PyStr("x"), bad |-> TRUE]}

\* The i-th saved item of a long library: names and artists repeat, so
\* that equal sort keys occur, and one item does not convert.
GeneratedItem(i) ==
    [id |-> "g" \o ToString(i),
     name |-> <<PyStr("b"), PyStr("A"), PyStr("a"), PyNone>>[(i % 4) + 1],
     artist |-> <<PyStr("Y"), PyStr("x"), PyStr("X")>>[(i % 3) + 1],
     bad |-> (i = 3)]

GeneratedLibrary(n) == [i \in 1..n |-> GeneratedItem(i)]

\* Library sizes around the page sizes in play: the routes' smallest limit
\* (20) and the adapter's page size (50).
LongSizes == {22, 51}

\* A library holds each track once.
Libraries ==
    {l \in SeqsUpTo(ItemPool, MaxLib) : \A i, j \in 1..Len(l) : l[i] = l[j] => i = j}
        \cup {GeneratedLibrary(n) : n \in LongSizes}

Hows == {"ok", "noauth", "raise", "empty"}

NoError == PyNone

\* sp.current_user_saved_tracks(limit, offset): the envelope {items, total}.
current_user_saved_tracks(library, limit, offset) ==
    [items |-> Slice(library, offset, offset + limit), total |-> Len(library)]

RECURSIVE _parse_tracks_from_response(_)
\* Items that do not convert are skipped.
_parse_tracks_from_response(items) ==
    IF items = <<>> THEN <<>>
    ELSE IF Head(items).bad THEN _parse_tracks_from_response(Tail(items))
    ELSE <<FavTrack(Head(items))>> \o _parse_tracks_from_response(Tail(items))

\* What the external API is sent: limit and offset of one page request.
PageRequest(limit, offset) == [limit |-> limit, offset |-> offset]

\* limit = max(1, min(MAX_TRACKS_PER_REQUEST, limit))
request_limit(limit) == Max(1, Min(MAX_TRACKS_PER_REQUEST, limit))

\* FavoritesManager.get_saved_tracks: limit is brought into [1, 50]; reqs
\* is the page request sent to the external API, if one was sent.
get_saved_tracks(library, how, limit, offset) ==
    LET lim == request_limit(limit)
        off == Max(0, offset)
        sent == <<PageRequest(lim, off)>>
    IN  CASE how = "noauth" -> [tracks |-> <<>>, reqs |-> <<>>,
                                error |-> PyStr("Usuario nao autenticado no Spotify.")]
          [] how = "raise" -> [tracks |-> <<>>, reqs |-> sent,
                               error |-> PyStr("Erro ao obter favoritos")]
          [] how = "empty" -> [tracks |-> <<>>, reqs |-> sent,
                               error |-> PyStr("Nenhum resultado retornado pela API")]
          [] OTHER -> [tracks |-> _parse_tracks_from_response(
                                      current_user_saved_tracks(library, lim, off).items),
                       reqs |-> sent, error |-> NoError]

\* An external API that answers every request with a full page, whatever
\* the offset: the library read round and round.
endless_saved_tracks(library, limit, offset) ==
    [items |-> [i \in 1..limit |-> library[((offset + i - 1) % Len(library)) + 1]],
     total |-> Len(library)]

\* The loop asking for the same offset again.
next_offset_stuck(offset, limit) == offset

\* offset += limit
next_offset(offset, limit) == offset + limit

\* The locals of get_all_saved_tracks when its loop starts; reqs are the
\* page requests sent so far, pc is "loop" while the loop runs, "done"
\* after a break and "raised" after an exception.
LoopStart ==
    [offset |-> 0, page |-> 1, all_tracks |-> <<>>, reqs |-> <<>>, capped |-> FALSE,
     pc |-> "loop"]

\* One pass through the body of the `while True` loop; `at` is the page
\* request that `how` strikes.
loop_iteration(library, how, at, st) ==
    LET limit == MAX_TRACKS_PER_REQUEST
        sent == Append(st.reqs, PageRequest(limit, st.offset))
    IN  IF how = "raise" /\ at = st.page THEN [st EXCEPT !.reqs = sent, !.pc = "raised"]
        ELSE IF how = "empty" /\ at = st.page THEN [st EXCEPT !.reqs = sent, !.pc = "done"]
        ELSE LET items == IF how = "endless"
                          THEN endless_saved_tracks(library, limit, st.offset).items
                          ELSE current_user_saved_tracks(library, limit, st.offset).items
                 gathered == st.all_tracks \o _parse_tracks_from_response(items)
             IN  IF items = <<>> THEN [st EXCEPT !.reqs = sent, !.pc = "done"]
                 ELSE IF Len(items) < limit
                 THEN [st EXCEPT !.reqs = sent, !.all_tracks = gathered, !.pc = "done"]
                 ELSE [offset |-> next_offset(st.offset, limit), page |-> st.page + 1,
                       all_tracks |-> gathered, reqs |-> sent,
                       capped |-> st.page + 1 > MaxPages,
                       pc |-> IF st.page + 1 > MaxPages THEN "done" ELSE "loop"]

RECURSIVE FetchPages(_, _, _, _)
\* The loop run from a given state to its end.
FetchPages(library, how, at, st) ==
    IF st.pc # "loop" THEN st
    ELSE FetchPages(library, how, at, loop_iteration(library, how, at, st))

\* What get_all_saved_tracks returns after its loop; reqs and capped are
\* the page requests sent and whether the page cap ended the loop.
AllResult(st) ==
    IF st.pc = "raised"
    THEN [tracks |-> <<>>, error |-> PyStr("Erro ao obter todos os favoritos"),
          reqs |-> st.reqs, capped |-> FALSE]
    ELSE [tracks |-> st.all_tracks, error |-> NoError, reqs |-> st.reqs, capped |-> st.capped]

\* if error or sp is None: return [], error
AllNoAuth ==
    [tracks |-> <<>>, error |-> PyStr("Usuario nao autenticado no Spotify."),
     reqs |-> <<>>, capped |-> FALSE]

\* FavoritesManager.get_all_saved_tracks
get_all_saved_tracks(library, how, at) ==
    IF how = "noauth" THEN AllNoAuth
    ELSE AllResult(FetchPages(library, how, at, LoopStart))

\* FavoritesManager.get_total_saved_tracks
get_total_saved_tracks(library, how) ==
    CASE how = "noauth" -> [total |-> 0, error |-> PyStr("Usuario nao autenticado no Spotify.")]
      [] how = "raise" -> [total |-> 0, error |-> PyStr("Erro ao obter total de favoritos")]
      [] how = "empty" -> [total |-> 0, error |-> PyStr("Resposta invalida da API")]
      [] OTHER -> [total |-> current_user_saved_tracks(library, 1, 0).total, error |-> NoError]

-----------------------------------------------------------------------------
(* The favorites routes (app.py): favoritos and api_favoritos *)

\* str.casefold on the strings of the model.
casefold(s) ==
    CASE s = "A" -> "a"
      [] s = "X" -> "x"
      [] s = "Y" -> "y"
      [] OTHER -> s

\* Case-folded strings in Python string order.
FoldedOrder == <<"", "a", "b", "x", "y">>

FoldRank(s) == CHOOSE i \in 1..Len(FoldedOrder) : FoldedOrder[i] = s

\* (t.name or '').casefold() and (t.artist or '').casefold()
sort_key_name(t) == casefold(IF t.name = PyNone THEN "" ELSE t.name.s)
sort_key_artist(t) == casefold(IF t.artist = PyNone THEN "" ELSE t.artist.s)

SortKey(t, byArtist) == FoldRank(IF byArtist THEN sort_key_artist(t) ELSE sort_key_name(t))

\* The sorted list with one more element, the last of the input: it goes
\* behind every element that must not come after it, equal keys included.
insert_last(sorted_head, t, byArtist, reverse) ==
    LET k == Cardinality({i \in 1..Len(sorted_head) :
                            IF reverse
                            THEN SortKey(sorted_head[i], byArtist) >= SortKey(t, byArtist)
                            ELSE SortKey(sorted_head[i], byArtist) <= SortKey(t, byArtist)})
    IN  SubSeq(sorted_head, 1, k) \o <<t>> \o SubSeq(sorted_head, k + 1, Len(sorted_head))

Reverse(s) == [i \in 1..Len(s) |-> s[Len(s) + 1 - i]]

RECURSIVE list_sort_reversed(_, _, _)
\* A descending sort obtained by reversing the ascending one.
list_sort_reversed(tracks, byArtist, reverse) ==
    IF reverse THEN Reverse(list_sort_reversed(tracks, byArtist, FALSE))
    ELSE IF tracks = <<>> THEN <<>>
    ELSE insert_last(list_sort_reversed(SubSeq(tracks, 1, Len(tracks) - 1), byArtist, FALSE),
                     tracks[Len(tracks)], byArtist, FALSE)

RECURSIVE list_sort(_, _, _)
\* list.sort(key=..., reverse=...): stable in both directions, elements
\* with equal keys keep the order they had.
list_sort(tracks, byArtist, reverse) ==
    IF tracks = <<>> THEN <<>>
    ELSE insert_last(list_sort(SubSeq(tracks, 1, Len(tracks) - 1), byArtist, reverse),
                     tracks[Len(tracks)], byArtist, reverse)

\* The if/elif chain on sort; any other value leaves the order alone.
ApplySort(tracks, sort) ==
    CASE sort = "name-asc" -> list_sort(tracks, FALSE, FALSE)
      [] sort = "name-desc" -> list_sort(tracks, FALSE, TRUE)
      [] sort = "artist-asc" -> list_sort(tracks, TRUE, FALSE)
      [] sort = "artist-desc" -> list_sort(tracks, TRUE, TRUE)
      [] OTHER -> tracks

fetch_all_limit_only(req) == req.limit > 1000

\* fetch_all = limit > 1000 or sort != 'default'
fetch_all(req) == req.limit > 1000 \/ req.sort # "default"

\* The clamp without its lower end.
ClampLimit_nofloor(limit) == Min(limit, 100)

\* limit = min(max(20, limit), 100)
ClampLimit(limit) == Min(Max(20, limit), 100)

\* total // limit: the pages counted without the partial last one.
total_pages_floor(total, limit) == total \div limit

\* 'total_pages': (total + limit - 1) // limit
total_pages(total, limit) == (total + limit - 1) \div limit

\* The total taken from the count call even when that call failed.
total_fallback_none(c, tracks) == c.total

\* if total_error: total_favorites = len(tracks)
total_fallback(c, tracks) == IF c.error # NoError THEN Len(tracks) ELSE c.total

Called(op, limit, offset) == [op |-> op, limit |-> limit, offset |-> offset]

\* tracks_data: the dicts the API route returns for the tracks.
TracksData(tracks) ==
    [i \in 1..Len(tracks) |-> [id |-> tracks[i].id, name |-> tracks[i].name, artist |-> tracks[i].artist]]

\* favoritos(): the context handed to render_template and the adapter
\* calls made.  env says what happens to each adapter call.
favoritos(req, library, env) ==
    LET page == Max(1, req.page)
    IN  IF fetch_all(req)
        THEN LET r == get_all_saved_tracks(library, env.all, env.at)
                 tracks == ApplySort(r.tracks, req.sort)
                 total_favorites == Len(tracks)
                 limit == ClampLimit(req.limit)
                 start == (page - 1) * limit
             IN  [calls |-> <<Called("list_all", 0, 0)>>, api |-> r.reqs,
                  resp |->
                    IF r.error # NoError
                    THEN [status |-> 200, tracks |-> <<>>, error |-> r.error, total |-> 0,
                          page |-> 1, limit |-> 20, sort |-> req.sort]
                    ELSE IF req.limit > 1000
                    THEN [status |-> 200, tracks |-> tracks, error |-> NoError,
                          total |-> total_favorites, page |-> 1, limit |-> 9999, sort |-> req.sort]
                    ELSE [status |-> 200, tracks |-> Slice(tracks, start, start + limit),
                          error |-> NoError, total |-> total_favorites, page |-> page,
                          limit |-> limit, sort |-> req.sort]]
        ELSE LET limit == ClampLimit(req.limit)
                 offset == (page - 1) * limit
                 r == get_saved_tracks(library, env.page, limit, offset)
                 c == get_total_saved_tracks(library, env.total)
                 total_favorites == total_fallback(c, r.tracks)
             IN  [calls |-> <<Called("list_page", limit, offset), Called("total_count", 1, 0)>>,
                  api |-> r.reqs,
                  resp |->
                    IF r.error # NoError
                    THEN [status |-> 200, tracks |-> <<>>, error |-> r.error, total |-> 0,
                          page |-> 1, limit |-> limit, sort |-> req.sort]
                    ELSE [status |-> 200, tracks |-> r.tracks, error |-> NoError,
                          total |-> total_favorites, page |-> page, limit |-> limit,
                          sort |-> req.sort]]

\* api_favoritos(): the JSON body, the status and the adapter calls made.
api_favoritos(req, library, env) ==
    LET page == Max(1, req.page)
    IN  IF req.limit > 1000 \/ req.sort # "default"
        THEN LET r == get_all_saved_tracks(library, env.all, env.at)
                 tracks == ApplySort(r.tracks, req.sort)
                 total == Len(tracks)
                 limit == ClampLimit(req.limit)
                 start == (page - 1) * limit
             IN  [calls |-> <<Called("list_all", 0, 0)>>, api |-> r.reqs,
                  resp |->
                    IF r.error # NoError
                    THEN [status |-> 500, success |-> FALSE, error |-> r.error]
                    ELSE IF req.limit > 1000
                    THEN [status |-> 200, success |-> TRUE, tracks |-> TracksData(tracks),
                          total |-> total, page |-> 1, limit |-> total, total_pages |-> 1]
                    ELSE [status |-> 200, success |-> TRUE,
                          tracks |-> TracksData(Slice(tracks, start, start + limit)),
                          total |-> total, page |-> page, limit |-> limit,
                          total_pages |-> total_pages(total, limit)]]
        ELSE LET limit == ClampLimit(req.limit)
                 offset == (page - 1) * limit
                 r == get_saved_tracks(library, env.page, limit, offset)
                 c == get_total_saved_tracks(library, env.total)
                 total == total_fallback(c, r.tracks)
             IN  IF r.error # NoError
                 THEN [calls |-> <<Called("list_page", limit, offset)>>, api |-> r.reqs,
                       resp |-> [status |-> 500, success |-> FALSE, error |-> r.error]]
                 ELSE [calls |-> <<Called("list_page", limit, offset), Called("total_count", 1, 0)>>,
                       api |-> r.reqs,
                       resp |-> [status |-> 200, success |-> TRUE, tracks |-> TracksData(r.tracks),
                                 total |-> total, page |-> page, limit |-> limit,
                                 total_pages |-> total_pages(total, limit)]]

\* request.args: page and limit as integers, sort as sent.
Requests ==
    [page : {0, 1, 2, 3}, limit : {5, 20, 50, 100, 1000, 1001},
     sort : {"default", "name-asc", "name-desc", "artist-asc", "artist-desc", "oldest"}]

\* What happens to each adapter call of a request, and the page request of
\* get_all_saved_tracks it happens at.  A call the request does not make
\* has nothing happen to it.
Envs(req) ==
    IF fetch_all(req)
    THEN [page : {"ok"}, total : {"ok"}, all : Hows, at : {1, 2}]
    ELSE [page : Hows, total : Hows, all : {"ok"}, at : {1}]

\* GET /favoritos
Favoritos(req, env) ==
    /\ fav.route = "none"
    /\ LET r == favoritos(req, lib, env)
       IN  fav' = [route |-> "favoritos", req |-> req, env |-> env, resp |-> r.resp,
                   calls |-> r.calls, api |-> r.api]
    /\ UNCHANGED <<kq, lib, adp, redis, up, _enabled, memo, prev, inv, ret>>

\* GET /api/favoritos
ApiFavoritos(req, env) ==
    /\ fav.route = "none"
    /\ LET r == api_favoritos(req, lib, env)
       IN  fav' = [route |-> "api_favoritos", req |-> req, env |-> env, resp |-> r.resp,
                   calls |-> r.calls, api |-> r.api]
    /\ UNCHANGED <<kq, lib, adp, redis, up, _enabled, memo, prev, inv, ret>>

\* The response has gone out; the next request starts from nothing.
FavoritosDone ==
    /\ fav.route # "none"
    /\ fav' = NoFav
    /\ UNCHANGED <<kq, lib, adp, redis, up, _enabled, memo, prev, inv, ret>>

InitFav ==
    /\ up = TRUE
    /\ _enabled = TRUE
    /\ redis = EmptyStore
    /\ memo = MemoIdle
    /\ prev = NoPrev
    /\ inv = InvIdle
    /\ ret = NoRet
    /\ kq = NoKq
    /\ lib \in Libraries
    /\ fav = NoFav
    /\ adp = NoAdp

NextFav ==
    \/ \E req \in Requests : \E env \in Envs(req) : Favoritos(req, env)
    \/ \E req \in Requests : \E env \in Envs(req) : ApiFavoritos(req, env)
    \/ FavoritosDone

SpecFav == InitFav /\ [][NextFav]_vars

CalledOps(calls) == {calls[i].op : i \in 1..Len(calls)}

\* C10: for every favorites request the fetch-all branch is taken exactly
\* when limit > 1000 or sort is not the default: then list_all is called and
\* neither list_page nor total_count is; otherwise list_page is called and
\* list_all is not.
C10_BranchSelection ==
    fav.route # "none"
        => IF fav.req.limit > 1000 \/ fav.req.sort # "default"
           THEN CalledOps(fav.calls) = {"list_all"}
           ELSE "list_page" \in CalledOps(fav.calls) /\ "list_all" \notin CalledOps(fav.calls)

\* A default-sort request with an oversized limit went to list_all.
C10_Witness ==
    /\ fav.route = "api_favoritos"
    /\ fav.req.limit > 1000
    /\ fav.req.sort = "default"
    /\ CalledOps(fav.calls) = {"list_all"}
    /\ fav.resp.status = 200

-----------------------------------------------------------------------------
(* Favorites routes: the paged branch *)

Ids(tracks) == [i \in 1..Len(tracks) |-> tracks[i].id]

\* The request took the paged branch / the fetch-all branch.
PagedBranch == fav.route # "none" /\ ~(fav.req.limit > 1000 \/ fav.req.sort # "default")
AllBranch == fav.route # "none" /\ (fav.req.limit > 1000 \/ fav.req.sort # "default")

\* The response reports success.
Succeeded == IF fav.route = "favoritos" THEN fav.resp.error = NoError ELSE fav.resp.success

\* C11: in the paged branch, with L the limit clamped to [20,100] and p the
\* page, the external API is asked for exactly L items at offset (p-1)*L,
\* and a successful response holds the library's tracks at positions
\* [(p-1)*L, (p-1)*L+L), bounded by the library size.
C11_PageIsRequestedWindow ==
    PagedBranch
        => LET L == ClampLimit(fav.req.limit)
               offset == (Max(1, fav.req.page) - 1) * L
           IN  /\ fav.api # <<>> => fav.api = <<PageRequest(L, offset)>>
               /\ Succeeded
                    => Ids(fav.resp.tracks)
                          = Ids(_parse_tracks_from_response(Slice(lib, offset, offset + L)))

\* The fetch the request rests on failed: the page fetch in the paged
\* branch; in the fetch-all branch no token, or an exception or an empty
\* envelope at a page request that was sent.
FetchFailed ==
    \/ PagedBranch /\ fav.env.page # "ok"
    \/ AllBranch /\ fav.env.all = "noauth"
    \/ AllBranch /\ fav.env.all \in {"raise", "empty"} /\ Len(fav.api) >= fav.env.at

\* The response carries an error, an empty track list and total = 0.
ErrorResult ==
    /\ "error" \in DOMAIN fav.resp /\ fav.resp.error # NoError
    /\ "tracks" \in DOMAIN fav.resp /\ fav.resp.tracks = <<>>
    /\ "total" \in DOMAIN fav.resp /\ fav.resp.total = 0

\* C12: any failure of the underlying favorites fetch makes either route
\* return an explicit error with an empty track list and total = 0, never a
\* success result.
C12_FetchFailureIsExplicit ==
    FetchFailed => ErrorResult /\ ~Succeeded

\* C13: in the paged branch, when the page fetch succeeds and the count
\* call fails, the response is a success whose total is the number of
\* tracks of the returned page, and total_pages (API route) is the smallest
\* n with n * limit >= total.
C13_TotalFallsBackToPageLength ==
    PagedBranch /\ fav.env.page = "ok" /\ fav.env.total # "ok"
        => /\ Succeeded
           /\ fav.resp.total = Len(fav.resp.tracks)
           /\ fav.route = "api_favoritos"
                => /\ fav.resp.total_pages * fav.resp.limit >= Len(fav.resp.tracks)
                   /\ (fav.resp.total_pages - 1) * fav.resp.limit < Len(fav.resp.tracks)
                        \/ fav.resp.total_pages = 0

\* The count call raised for a library of more tracks than one page: the
\* reported total is the page's length, not the library's.
C13_Witness ==
    /\ fav.route = "api_favoritos"
    /\ PagedBranch
    /\ fav.env.page = "ok" /\ fav.env.total = "raise"
    /\ fav.resp.success
    /\ fav.resp.total = Len(fav.resp.tracks)
    /\ fav.resp.total > 0 /\ fav.resp.total < Len(lib)
    /\ fav.resp.total_pages = 1

-----------------------------------------------------------------------------
(* The favorites adapter called directly: get_all_saved_tracks *)

\* What can happen to the page requests of one get_all_saved_tracks call:
\* an outcome of Hows at page request 1, 2 or 3, or an external API that
\* returns a full page forever.
AllEnvs == (Hows \X {1, 2, 3}) \cup {<<"endless", 1>>}

\* get_all_saved_tracks up to the start of its loop.
GetAllSavedTracks(how, at) ==
    /\ adp.op = "none"
    /\ how = "endless" => Len(lib) >= MAX_TRACKS_PER_REQUEST
    /\ adp' = IF how = "noauth"
              THEN [op |-> "list_all", how |-> how, at |-> at, st |-> [LoopStart EXCEPT !.pc = "done"],
                    pc |-> "returned", result |-> AllNoAuth]
              ELSE [op |-> "list_all", how |-> how, at |-> at, st |-> LoopStart,
                    pc |-> "loop", result |-> AllNoAuth]
    /\ UNCHANGED <<kq, lib, fav, redis, up, _enabled, memo, prev, inv, ret>>

\* One page request of the loop.
LoopIteration ==
    /\ adp.op = "list_all" /\ adp.pc = "loop" /\ adp.st.pc = "loop"
    /\ adp' = [adp EXCEPT !.st = loop_iteration(lib, adp.how, adp.at, adp.st)]
    /\ UNCHANGED <<kq, lib, fav, redis, up, _enabled, memo, prev, inv, ret>>

\* The loop is over: return all_tracks, None, or [], error_msg.
LoopReturn ==
    /\ adp.op = "list_all" /\ adp.pc = "loop" /\ adp.st.pc # "loop"
    /\ adp' = [adp EXCEPT !.pc = "returned", !.result = AllResult(adp.st)]
    /\ UNCHANGED <<kq, lib, fav, redis, up, _enabled, memo, prev, inv, ret>>

\* The caller has the result; the next call starts from nothing.
AdapterDone ==
    /\ adp.op # "none" /\ adp.pc = "returned"
    /\ adp' = NoAdp
    /\ UNCHANGED <<kq, lib, fav, redis, up, _enabled, memo, prev, inv, ret>>

NextAll ==
    \/ \E e \in AllEnvs : GetAllSavedTracks(e[1], e[2])
    \/ LoopIteration
    \/ LoopReturn
    \/ AdapterDone

SpecAll == InitFav /\ [][NextAll]_vars

\* The loop is sequential and blocking: once started, each page request
\* and the return are taken.
SpecAllFair == SpecAll /\ WF_vars(LoopIteration) /\ WF_vars(LoopReturn)

\* The i-th page request of the call is answered with a full page.
FullPage(i) ==
    /\ ~(adp.how \in {"raise", "empty"} /\ adp.at = i)
    /\ adp.how = "endless" \/ MAX_TRACKS_PER_REQUEST * i <= Len(lib)

\* The items the external API delivered over the first n page requests, in
\* request order.
Delivered(n) ==
    LET full == IF adp.how \in {"raise", "empty"} /\ adp.at <= n THEN n - 1 ELSE n
    IN  IF adp.how = "endless"
        THEN [k \in 1..(MAX_TRACKS_PER_REQUEST * full) |-> lib[((k - 1) % Len(lib)) + 1]]
        ELSE SubSeq(lib, 1, Min(Len(lib), MAX_TRACKS_PER_REQUEST * full))

Converts(item) == ~item.bad

\* The tracks of the items that convert, in order.
TracksOf(items) ==
    LET good == SelectSeq(items, Converts)
    IN  [k \in 1..Len(good) |-> FavTrack(good[k])]

ListAllShape ==
    adp.op = "list_all"
        => LET reqs == adp.st.reqs
               n == Len(reqs)
           IN  /\ n <= 1000
               /\ \A i \in 1..n :
                     reqs[i] = PageRequest(50, 50 * (i - 1))
               /\ \A i \in 1..(n - 1) : FullPage(i)
               /\ adp.st.pc = "loop" /\ n > 0 => FullPage(n)
               /\ adp.st.pc # "loop" /\ adp.how # "noauth" => ~FullPage(n) \/ n = 1000
               /\ adp.pc = "returned" /\ adp.result.error = NoError
                    => adp.result.tracks = TracksOf(Delivered(n))

\* C14: get_all_saved_tracks always terminates: it requests pages of 50 at
\* offsets 0, 50, 100, ... in increasing order, stops at the first page
\* that is not full, sends at most 1000 page requests even when every page
\* is full, and returns the concatenation of the fetched pages in request
\* order.
C14_ListAllTerminates ==
    /\ []ListAllShape
    /\ (adp.op = "list_all") ~> (adp.op = "list_all" /\ adp.pc = "returned")

\* The external API returned a full page a thousand times: the call came
\* back after exactly 1000 page requests with what it had gathered.
C14_Witness ==
    /\ adp.op = "list_all" /\ adp.pc = "returned"
    /\ adp.how = "endless"
    /\ Len(adp.result.reqs) = 1000
    /\ adp.result.reqs[1000].offset = 49950
    /\ adp.result.capped
    /\ Len(adp.result.tracks) > 49000

\* A page request of the call was sent and failed: no token, an exception,
\* or an empty or malformed envelope.
PageFailed ==
    /\ adp.op = "list_all" /\ adp.pc = "returned"
    /\ \/ adp.how = "noauth"
       \/ adp.how \in {"raise", "empty"} /\ Len(adp.result.reqs) >= adp.at

\* C15: get_all_saved_tracks returns a partial list with no error only when
\* the 1000-page cap was hit; any failure while fetching a page yields an
\* empty list and an explicit error.
C15_PartialOnlyAtCap ==
    /\ PageFailed => adp.result.tracks = <<>> /\ adp.result.error # NoError
    /\ adp.op = "list_all" /\ adp.pc = "returned" /\ adp.result.error = NoError
            /\ adp.result.tracks # TracksOf(lib)
         => adp.result.capped

-----------------------------------------------------------------------------
(* Favorites routes: the fetch-all branch *)

\* The list get_all_saved_tracks returned to the route: the tracks of the
\* whole library, or of the pages before an empty envelope.
BaseList ==
    IF fav.env.all = "empty" /\ fav.env.at <= Len(fav.api)
    THEN TracksOf(SubSeq(lib, 1, Min(Len(lib), MAX_TRACKS_PER_REQUEST * (fav.env.at - 1))))
    ELSE TracksOf(lib)

\* The case-folded field a sort mode orders by, as its place in string
\* order; a missing field counts as the empty string.
FieldOf(t, sort) ==
    LET v == IF sort \in {"name-asc", "name-desc"} THEN t.name ELSE t.artist
    IN  FoldRank(casefold(IF v = PyNone THEN "" ELSE v.s))

Sorts == {"name-asc", "name-desc", "artist-asc", "artist-desc"}
Descending == {"name-desc", "artist-desc"}

\* Where a returned track stood in the list of get_all_saved_tracks.
PlaceInBase(t) == CHOOSE k \in 1..Len(BaseList) : BaseList[k].id = t.id

\* a may stand directly before b in the result of the sort.
InOrder(a, b, sort) ==
    \/ sort \notin Descending /\ FieldOf(a, sort) < FieldOf(b, sort)
    \/ sort \in Descending /\ FieldOf(a, sort) > FieldOf(b, sort)
    \/ FieldOf(a, sort) = FieldOf(b, sort) /\ PlaceInBase(a) < PlaceInBase(b)

\* C16: in the fetch-all branch each of the four sorts orders the returned
\* tracks by the case-folded field (a missing field as the empty string),
\* ascending or descending, and two tracks with equal folded fields keep
\* the relative order they had in the list of get_all_saved_tracks, in
\* both directions.  Stated on neighbours, which carries over to all pairs.
C16_SortIsStableBothWays ==
    AllBranch /\ Succeeded /\ fav.req.sort \in Sorts
        => \A i \in 1..(Len(fav.resp.tracks) - 1) :
              InOrder(fav.resp.tracks[i], fav.resp.tracks[i + 1], fav.req.sort)

\* A descending sort returned two tracks whose names differ only in case
\* next to each other, in the order the library had them.
C16_Witness ==
    /\ AllBranch /\ Succeeded /\ fav.req.sort = "name-desc" /\ fav.req.limit > 1000
    /\ \E i \in 1..(Len(fav.resp.tracks) - 1) :
          /\ fav.resp.tracks[i].name # fav.resp.tracks[i + 1].name
          /\ FieldOf(fav.resp.tracks[i], "name-desc") = FieldOf(fav.resp.tracks[i + 1], "name-desc")
          /\ PlaceInBase(fav.resp.tracks[i]) < PlaceInBase(fav.resp.tracks[i + 1])

\* C17: when the raw limit exceeds 1000 and get_all_saved_tracks succeeds,
\* either route returns the whole sequence unsliced with page = 1, limit
\* equal to the total number of tracks and (API route) total_pages = 1,
\* whatever page and sort were requested.
C17_SentinelReportsTotalAsLimit ==
    AllBranch /\ Succeeded /\ fav.req.limit > 1000
        => /\ Len(fav.resp.tracks) = Len(BaseList)
           /\ fav.resp.total = Len(BaseList)
           /\ fav.resp.page = 1
           /\ fav.resp.limit = fav.resp.total
           /\ fav.route = "api_favoritos" => fav.resp.total_pages = 1

\* The place (from 1) of the k-th track of the base list in the sequence
\* the requested sort produces; a sort value outside the four leaves the
\* order alone.
PlaceInSorted(k, sort) ==
    1 + Cardinality({e \in 1..Len(BaseList) :
                       IF sort \in Sorts
                       THEN \/ sort \notin Descending
                               /\ FieldOf(BaseList[e], sort) < FieldOf(BaseList[k], sort)
                            \/ sort \in Descending
                               /\ FieldOf(BaseList[e], sort) > FieldOf(BaseList[k], sort)
                            \/ FieldOf(BaseList[e], sort) = FieldOf(BaseList[k], sort) /\ e < k
                       ELSE e < k})

\* C18: in the fetch-all branch with a non-default sort and raw limit
\* <= 1000, the limit is clamped to L in [20,100], the returned tracks are
\* the elements at indices [(page-1)*L, (page-1)*L+L) of the full sorted
\* sequence (none past its end), total is the length of the full sequence,
\* and the adapter is asked for no page.
C18_SortedSliceInMemory ==
    AllBranch /\ Succeeded /\ fav.req.limit <= 1000
        => LET L == IF fav.req.limit < 20 THEN 20
                    ELSE IF fav.req.limit > 100 THEN 100 ELSE fav.req.limit
               start == (Max(1, fav.req.page) - 1) * L
               total == Len(BaseList)
           IN  /\ fav.resp.limit = L
               /\ fav.resp.total = total
               /\ Len(fav.resp.tracks) = Max(0, Min(L, total - start))
               /\ \A j \in 1..Len(fav.resp.tracks) :
                     PlaceInSorted(PlaceInBase(fav.resp.tracks[j]), fav.req.sort) = start + j
               /\ CalledOps(fav.calls) = {"list_all"}

\* Page 2 of 21 converted tracks sorted by artist at limit 20: the one
\* track at index 20 of the sorted sequence.
C18_Witness ==
    /\ fav.route = "api_favoritos" /\ AllBranch /\ fav.resp.success
    /\ fav.req.sort = "artist-asc" /\ fav.req.page = 2 /\ fav.resp.limit = 20
    /\ fav.resp.total = 21
    /\ Len(fav.resp.tracks) = 1
    /\ PlaceInSorted(PlaceInBase(fav.resp.tracks[1]), "artist-asc") = 21
    /\ fav.resp.total_pages = 2

\* C19: in every success response of the API route that is not the
\* fetch-all sentinel, total_pages is the smallest n with n * limit >=
\* total for the reported total and limit, and is 0 exactly when total is 0.
C19_TotalPagesIsCeiling ==
    fav.route = "api_favoritos" /\ fav.resp.success /\ fav.req.limit <= 1000
        => /\ fav.resp.total_pages >= 0
           /\ fav.resp.total_pages * fav.resp.limit >= fav.resp.total
           /\ fav.resp.total_pages > 0
                => (fav.resp.total_pages - 1) * fav.resp.limit < fav.resp.total
           /\ fav.resp.total_pages = 0 <=> fav.resp.total = 0

\* 51 saved tracks at limit 20: three pages, the last one partial.
C19_Witness ==
    /\ fav.route = "api_favoritos" /\ fav.resp.success /\ fav.req.limit <= 1000
    /\ fav.resp.total = 51 /\ fav.resp.limit = 20 /\ fav.resp.total_pages = 3

-----------------------------------------------------------------------------
(* The favorites adapter called directly: check_saved_tracks *)

MAX_IDS_CHECK == 50

\* str.strip on the ids of the model.
strip(tid) ==
    CASE tid = " " -> ""
      [] tid = " 1" -> "1"
      [] OTHER -> tid

\* Ids a caller may hand over: saved or not, empty, blank, padded.
IdPool == {"1", "g1", "zz", "", " ", " 1"}

GeneratedIds(n) == [i \in 1..n |-> "g" \o ToString(i)]

\* Short lists of any ids and long lists that need two or three chunks.
IdLists == SeqsUpTo(IdPool, MaxIds) \cup {GeneratedIds(n) : n \in {50, 51, 120}}

\* [tid.strip() for tid in track_ids if tid and tid.strip()]
valid_ids(track_ids) ==
    LET NotBlank(tid) == tid # "" /\ strip(tid) # ""
        kept == SelectSeq(track_ids, NotBlank)
    IN  [i \in 1..Len(kept) |-> strip(kept[i])]

\* sp.current_user_saved_tracks_contains(chunk)
current_user_saved_tracks_contains(library, chunk) ==
    [i \in 1..Len(chunk) |-> \E k \in 1..Len(library) : library[k].id = chunk[i]]

RECURSIVE check_chunks(_, _, _, _, _, _)
\* The for loop over the chunks from index i (0-based), with the results
\* gathered so far; `how` strikes the call for chunk number `at`: it
\* raises ("raise") or answers None ("empty").
check_chunks(library, track_ids, how, at, i, results_all) ==
    IF i >= Len(track_ids) THEN [results |-> results_all, raised |-> FALSE]
    ELSE LET chunk == Slice(track_ids, i, i + MAX_IDS_CHECK)
             chunk_number == (i \div MAX_IDS_CHECK) + 1
         IN  IF how = "raise" /\ at = chunk_number
             THEN [results |-> results_all, raised |-> TRUE]
             ELSE IF how = "empty" /\ at = chunk_number
             THEN check_chunks(library, track_ids, how, at, i + MAX_IDS_CHECK,
                               results_all \o [k \in 1..Len(chunk) |-> FALSE])
             ELSE check_chunks(library, track_ids, how, at, i + MAX_IDS_CHECK,
                               results_all \o current_user_saved_tracks_contains(library, chunk))

\* FavoritesManager.check_saved_tracks
check_saved_tracks(library, track_ids, how, at) ==
    IF track_ids = <<>> THEN [results |-> <<>>, error |-> NoError]
    ELSE IF valid_ids(track_ids) = <<>>
    THEN [results |-> <<>>, error |-> PyStr("Nenhum ID valido fornecido.")]
    ELSE IF how = "noauth"
    THEN [results |-> <<>>, error |-> PyStr("Usuario nao autenticado no Spotify.")]
    ELSE LET r == check_chunks(library, valid_ids(track_ids), how, at, 0, <<>>)
         IN  IF r.raised
             THEN [results |-> <<>>, error |-> PyStr("Erro ao verificar favoritos")]
             ELSE [results |-> r.results, error |-> NoError]

CheckSavedTracks(track_ids, how, at) ==
    /\ adp.op = "none"
    /\ adp' = [op |-> "exists_bulk", ids |-> track_ids, how |-> how, at |-> at,
               pc |-> "returned", result |-> check_saved_tracks(lib, track_ids, how, at)]
    /\ UNCHANGED <<kq, lib, fav, redis, up, _enabled, memo, prev, inv, ret>>

NextBulk ==
    \/ \E track_ids \in IdLists, how \in Hows, at \in {1, 2, 3} :
          CheckSavedTracks(track_ids, how, at)
    \/ AdapterDone

SpecBulk == InitFav /\ [][NextBulk]_vars

\* The call for one of the chunks failed: it raised or answered None.
ChunkFailed ==
    /\ adp.op = "exists_bulk"
    /\ adp.how \in {"raise", "empty"}
    /\ MAX_IDS_CHECK * (adp.at - 1) < Len(valid_ids(adp.ids))

\* C20: a failure of the existence-check call for one chunk, an exception
\* included, turns only that chunk's entries into false: the call returns
\* no error and one answer per id, the real one for the ids of every other
\* chunk.
C20_ChunkFailureStaysLocal ==
    ChunkFailed
        => LET ids == valid_ids(adp.ids)
           IN  /\ adp.result.error = NoError
               /\ Len(adp.result.results) = Len(ids)
               /\ \A i \in 1..Len(ids) :
                     adp.result.results[i]
                        = IF (i - 1) \div 50 = adp.at - 1
                          THEN FALSE
                          ELSE \E k \in 1..Len(lib) : lib[k].id = ids[i]

\* C21: a successful check_saved_tracks returns one boolean per input id,
\* position i answering input id i, also when the input holds empty or
\* whitespace-only ids.
C21_BulkAnswersEveryInput ==
    adp.op = "exists_bulk" /\ adp.how = "ok" /\ adp.result.error = NoError
        => /\ Len(adp.result.results) = Len(adp.ids)
           /\ \A i \in 1..Len(adp.ids) :
                 adp.result.results[i] = (\E k \in 1..Len(lib) : lib[k].id = strip(adp.ids[i]))

-----------------------------------------------------------------------------
(* The favorites adapter called directly: save_track, remove_saved_track *)

\* Ids a caller may hand to save_track / remove_saved_track.
TrackIds == {"1", "2", " 1", "", " "}

\* What can happen to an adapter call that changes the favorites.
MutHows == {"ok", "noauth", "raise"}

\* The check that rejects the empty id only.
invalid_track_id_empty_only(track_id) == track_id = ""

\* `not track_id or not track_id.strip()`
invalid_track_id(track_id) == track_id = "" \/ strip(track_id) = ""

\* The saved item the external API makes of a track id.
ItemOf(tid) ==
    IF \E item \in ItemPool : item.id = tid
    THEN CHOOSE item \in ItemPool : item.id = tid
    ELSE [id |-> tid, name |-> PyStr("x"), artist |-> PyStr("x"), bad |-> FALSE]

\* sp.current_user_saved_tracks_add(tracks=[track_id]): the newest saved
\* track comes first; saving a saved track changes nothing.
current_user_saved_tracks_add(library, tid) ==
    IF \E k \in 1..Len(library) : library[k].id = tid THEN library
    ELSE <<ItemOf(tid)>> \o library

\* sp.current_user_saved_tracks_delete(tracks=[track_id])
current_user_saved_tracks_delete(library, tid) ==
    LET Other(item) == item.id # tid
    IN  SelectSeq(library, Other)

\* What a changing adapter call returns, the external interactions it made
\* in order, and the library afterwards.
MutResult(ok, error, trace, library) ==
    [ok |-> ok, error |-> error, trace |-> trace, library |-> library]

\* FavoritesManager.save_track
save_track(library, track_id, how) ==
    IF invalid_track_id(track_id)
    THEN MutResult(FALSE, PyStr("ID da musica invalido."), <<>>, library)
    ELSE IF how = "noauth"
    THEN MutResult(FALSE, PyStr("Usuario nao autenticado no Spotify."), <<"auth">>, library)
    ELSE IF how = "raise"
    THEN MutResult(FALSE, PyStr("Erro ao adicionar aos favoritos"), <<"auth", "add">>, library)
    ELSE MutResult(TRUE, NoError, <<"auth", "add">>,
                   current_user_saved_tracks_add(library, strip(track_id)))

\* FavoritesManager.remove_saved_track
remove_saved_track(library, track_id, how) ==
    IF invalid_track_id(track_id)
    THEN MutResult(FALSE, PyStr("ID da musica invalido."), <<>>, library)
    ELSE IF how = "noauth"
    THEN MutResult(FALSE, PyStr("Usuario nao autenticado no Spotify."), <<"auth">>, library)
    ELSE IF how = "raise"
    THEN MutResult(FALSE, PyStr("Erro ao remover dos favoritos"), <<"auth", "delete">>, library)
    ELSE MutResult(TRUE, NoError, <<"auth", "delete">>,
                   current_user_saved_tracks_delete(library, strip(track_id)))

SaveTrack(track_id, how) ==
    /\ adp.op = "none"
    /\ LET r == save_track(lib, track_id, how)
       IN  /\ adp' = [op |-> "add", id |-> track_id, how |-> how, pc |-> "returned",
                      before |-> lib, result |-> r]
           /\ lib' = r.library
    /\ UNCHANGED <<kq, fav, redis, up, _enabled, memo, prev, inv, ret>>

RemoveSavedTrack(track_id, how) ==
    /\ adp.op = "none"
    /\ LET r == remove_saved_track(lib, track_id, how)
       IN  /\ adp' = [op |-> "remove", id |-> track_id, how |-> how, pc |-> "returned",
                      before |-> lib, result |-> r]
           /\ lib' = r.library
    /\ UNCHANGED <<kq, fav, redis, up, _enabled, memo, prev, inv, ret>>

NextMut ==
    \/ \E track_id \in TrackIds, how \in MutHows : SaveTrack(track_id, how)
    \/ \E track_id \in TrackIds, how \in MutHows : RemoveSavedTrack(track_id, how)
    \/ AdapterDone

SpecMut == InitFav /\ [][NextMut]_vars

\* C22: save_track and remove_saved_track reject an empty or
\* whitespace-only track id with (False, error) before any external
\* interaction: no authentication lookup, no call that changes the
\* favorites, and the library is as it was.
C22_BlankIdRejectedFirst ==
    adp.op \in {"add", "remove"} /\ adp.id \in {"", " "}
        => /\ ~adp.result.ok
           /\ adp.result.error # NoError
           /\ adp.result.trace = <<>>
           /\ lib = adp.before

\* A whitespace-only id was handed to save_track by a logged-in user and
\* turned down without a call.
C22_Witness ==
    /\ adp.op = "add" /\ adp.id = " " /\ adp.how = "ok"
    /\ ~adp.result.ok
    /\ adp.result.trace = <<>>
    /\ lib = adp.before

(***************************************************************************)
(* The list-returning reads called on their own: the Catalog Reader        *)
(* operations against a response of the external API, and the two          *)
(* favorites listings against the library.                                 *)
(***************************************************************************)

MaxResp == 3

\* Entries of a response: two that convert and one whose conversion raises.
ApiItemPool ==
    {[id |-> "t1", bad |-> FALSE], [id |-> "t2", bad |-> FALSE], [id |-> "t3", bad |-> TRUE]}

CatalogResponses == [ok : BOOLEAN, items : SeqsUpTo(ApiItemPool, MaxResp)]

CatalogOps ==
    {"search_tracks", "search_artists", "related_artists", "artist_details", "artist_top_tracks"}

\* limit of get_related_artists: below, at and above the response lengths
\* in play, and the default.
RelatedLimits == {1, 2, 10}

\* The operation run on a response of the external API.
catalog_op(name, resp, limit) ==
    CASE name = "search_tracks" -> search_tracks(resp)
      [] name = "search_artists" -> search_artists(resp)
      [] name = "related_artists" -> get_related_artists(resp, limit)
      [] name = "artist_details" -> get_artist_details("A1", resp)
      [] OTHER -> get_artist_top_tracks(resp)

\* A caller runs one Catalog Reader operation.
CatalogCall(name, resp, limit) ==
    /\ adp.op = "none"
    /\ name # "related_artists" => limit = 10
    /\ adp' = [op |-> "catalog", name |-> name, resp |-> resp, limit |-> limit,
               pc |-> "returned", result |-> catalog_op(name, resp, limit)]
    /\ UNCHANGED <<kq, lib, fav, redis, up, _enabled, memo, prev, inv, ret>>

PageLimits == {1, 2, 50}

PageOffsets == {0, 1}

\* A caller runs get_saved_tracks.
GetSavedTracks(limit, offset, how) ==
    /\ adp.op = "none"
    /\ adp' = [op |-> "list_page", how |-> how, limit |-> limit, offset |-> offset,
               pc |-> "returned", result |-> get_saved_tracks(lib, how, limit, offset)]
    /\ UNCHANGED <<kq, lib, fav, redis, up, _enabled, memo, prev, inv, ret>>

NextRead ==
    \/ \E name \in CatalogOps, resp \in CatalogResponses, limit \in RelatedLimits :
          CatalogCall(name, resp, limit)
    \/ \E limit \in PageLimits, offset \in PageOffsets, how \in Hows :
          GetSavedTracks(limit, offset, how)
    \/ \E how \in Hows : GetAllSavedTracks(how, 1)
    \/ LoopIteration
    \/ LoopReturn
    \/ AdapterDone

SpecRead == InitFav /\ [][NextRead]_vars

\* C23: every Catalog Reader operation (search_tracks, search_artists,
\* related_artists, artist_details, artist_top_tracks) absorbs a
\* request-level failure of the external API: it returns an empty sequence
\* (None for artist_details) and no exception reaches its caller.
C23_RequestFailureAbsorbed ==
    adp.op = "catalog"
        => /\ adp.result # Exception
           /\ ~adp.resp.ok
                => adp.result = IF adp.name = "artist_details" THEN PyNone ELSE PyList(<<>>)

\* The external API failed a search that would have had entries: the
\* caller got the empty list.
C23_Witness ==
    /\ adp.op = "catalog" /\ adp.name = "search_tracks"
    /\ ~adp.resp.ok /\ Len(adp.resp.items) = 2
    /\ adp.result = PyList(<<>>)

\* The entities of the entries that convert, in the order of the entries.
EntitiesOf(cls, items) ==
    LET good == SelectSeq(items, Converts)
    IN  [k \in 1..Len(good) |-> [t |-> cls, id |-> good[k].id]]

SomeFails(items) == \E i \in 1..Len(items) : ~Converts(items[i])

FirstN(items, n) == SubSeq(items, 1, Min(n, Len(items)))

\* The saved items get_saved_tracks asked the external API for.
PageWindow == Slice(lib, Max(0, adp.offset), Max(0, adp.offset) + request_limit(adp.limit))

\* The favorites listings and the catalog listings other than
\* related_artists keep every entry that converts, in order, without error.
SkipsOnlyFailedItems ==
    /\ adp.op = "catalog" /\ adp.resp.ok /\ SomeFails(adp.resp.items)
         => /\ adp.name \in {"search_tracks", "artist_top_tracks"}
                 => adp.result = PyList(EntitiesOf("Track", adp.resp.items))
            /\ adp.name = "search_artists"
                 => adp.result = PyList(EntitiesOf("Artist", adp.resp.items))
    /\ adp.op = "list_page" /\ adp.how = "ok" /\ SomeFails(PageWindow)
         => adp.result.tracks = TracksOf(PageWindow) /\ adp.result.error = NoError
    /\ adp.op = "list_all" /\ adp.pc = "returned" /\ adp.how = "ok" /\ SomeFails(lib)
         => adp.result.tracks = TracksOf(lib) /\ adp.result.error = NoError

\* C28 as stated: when converting one item of a response fails, each
\* list-returning operation (search_tracks, search_artists, related_artists,
\* artist_top_tracks, list_page, list_all) skips only that item: the result
\* holds every other convertible item of the response, in order, and no
\* error is reported.
C28_EveryOtherItemKept ==
    /\ SkipsOnlyFailedItems
    /\ adp.op = "catalog" /\ adp.resp.ok /\ SomeFails(adp.resp.items)
         /\ adp.name = "related_artists"
         => adp.result = PyList(EntitiesOf("Artist", adp.resp.items))

\* C28 amended: as above, where for related_artists the items in question
\* are the first `limit` entries of the response (a failed entry among them
\* is skipped and not replaced by a later one).
C28_EveryOtherItemKeptWithinLimit ==
    /\ SkipsOnlyFailedItems
    /\ adp.op = "catalog" /\ adp.resp.ok /\ SomeFails(adp.resp.items)
         /\ adp.name = "related_artists"
         => adp.result = PyList(EntitiesOf("Artist", FirstN(adp.resp.items, adp.limit)))

\* The middle entry of three related artists did not convert: the other
\* two came back in order.
C28_Witness ==
    /\ adp.op = "catalog" /\ adp.name = "related_artists" /\ adp.limit = 10
    /\ adp.resp.ok /\ Len(adp.resp.items) = 3
    /\ ~Converts(adp.resp.items[2])
    /\ adp.result = PyList(<<Artist(adp.resp.items[1].id), Artist(adp.resp.items[3].id)>>)

(***************************************************************************)
(* The frame of pattern invalidation and of the cache-clear endpoint       *)
(***************************************************************************)

APP_NAMESPACE == "rhythmbox"

\* A step that is delete_pattern on an app-namespace pattern, or the clear
\* endpoint with any requested pattern.
InvalidationStep ==
    \/ \E pattern \in DirectPatterns :
          pattern[1] = APP_NAMESPACE /\ CallDeletePattern(pattern)
    \/ \E pattern \in ClearPatterns : CacheClear(pattern)

\* C24: pattern invalidation and the cache-clear endpoint never delete a
\* key outside the application namespace: after delete_pattern on an
\* app-namespace pattern, or after the clear endpoint ran with any requested
\* pattern (including "*"), every key of the shared store that does not
\* start with the app namespace prefix is unchanged.
C24_ForeignKeysUntouched ==
    [][InvalidationStep
         => \A k \in DOMAIN redis :
               k.ns # APP_NAMESPACE => k \in DOMAIN redis' /\ redis'[k] = redis[k]]_vars

(***************************************************************************)
(* The shape of the stats record                                           *)
(***************************************************************************)

\* C25: stats returns a record with exactly the fields enabled, total_keys,
\* hits, misses, hit_rate_pct, memory_used, connected_clients when the
\* cache is enabled, and exactly enabled = false with message in every
\* other case, also when a store call fails after the enabled probe
\* succeeded.
C25_StatsShape ==
    ret.op = "get_stats"
        => IF ret.val.enabled
           THEN DOMAIN ret.val = {"enabled", "total_keys", "hits", "misses", "hit_rate_pct",
                                  "memory_used", "connected_clients"}
           ELSE DOMAIN ret.val = {"enabled", "message"}

(***************************************************************************)
(* What a cache hit returns                                                *)
(***************************************************************************)

\* C26: for every memoized Catalog Reader operation, the value returned on
\* a cache hit equals the value the wrapped operation returned on the miss
\* that wrote the entry (the same sequence of Track/Artist records), so a
\* caller sees the same result whether or not the cache was hit.
C26_HitReturnsWhatMissReturned ==
    (QuietRepeat /\ prev.ret # PyNone /\ memo.opCalls = 0 /\ memo.cached # PyNone)
        => memo.ret = prev.ret

(***************************************************************************)
(* The four memoized Catalog Reader operations as the routes call them,    *)
(* with the store failing, expiring and being written by others.           *)
(***************************************************************************)

\* buscar: search_artists(query, limit=10), get_artist_details(id),
\* get_related_artists(id, limit=12), search_tracks(query).
MemoizedCalls ==
    {[op |-> "search_tracks", args |-> <<crud, PyStr("abc")>>, kwargs |-> <<>>],
     [op |-> "search_artists", args |-> <<crud, PyStr("abc")>>,
        kwargs |-> << <<"limit", PyInt(10)>> >>],
     [op |-> "artist_details", args |-> <<crud, PyStr("ar1")>>, kwargs |-> <<>>],
     [op |-> "related_artists", args |-> <<crud, PyStr("ar1")>>,
        kwargs |-> << <<"limit", PyInt(12)>> >>]}

MemoizedKeys == {wrapper_key(c) : c \in MemoizedCalls}

NextMemo ==
    \/ \E call \in MemoizedCalls : MemoBegin(call)
    \/ MemoProbe
    \/ MemoCallDirect
    \/ MemoGet
    \/ MemoCall
    \/ MemoSet
    \/ MemoReturn
    \/ StoreDown
    \/ StoreUp
    \/ \E key \in MemoizedKeys : Expire(key)
    \/ \E key \in MemoizedKeys : ForeignWrite(key, Malformed)

SpecMemo == Init /\ [][NextMemo]_vars

\* C27: every entry the memoizing wrapper writes for a Catalog Reader
\* operation is stored with a finite expiry equal to the operation's TTL
\* class: 300 s for search_tracks and search_artists, 1800 s for
\* artist_details, 3600 s for related_artists.
C27_WrittenWithTtlClass ==
    [][(MemoSet /\ memo'.wrote)
         => /\ memo.key \in DOMAIN redis'
            /\ redis'[memo.key].payload = dumps(memo.result)
            /\ redis'[memo.key].ttl # NoExpiry
            /\ redis'[memo.key].ttl =
                  CASE memo.call.op \in {"search_tracks", "search_artists"} -> 300
                    [] memo.call.op = "artist_details" -> 1800
                    [] memo.call.op = "related_artists" -> 3600]_vars

\* The wrapper has just stored a related_artists result, for an hour.
C27_Witness ==
    /\ memo.pc = "done" /\ memo.wrote /\ memo.quiet
    /\ memo.call.op = "related_artists"
    /\ memo.key \in DOMAIN redis
    /\ redis[memo.key].ttl = 3600
    /\ redis[memo.key].payload = dumps(memo.result)

(***************************************************************************)
(* A memoized read racing an invalidating write                            *)
(***************************************************************************)

\* C29: under any interleaving of a memoized read and an invalidating write
\* on the same data, once the invalidating wrapper has returned, no cache
\* entry matching its pattern holds a value the read computed before the
\* write took effect: a reader that fetched before the write does not store
\* its result after the write's delete_pattern.
C29_NoStaleEntryAfterInvalidation ==
    ~(/\ memo.pc = "done"
      /\ memo.overtaken = "returned"
      /\ memo.wrote
      /\ memo.key \in DOMAIN redis
      /\ redis[memo.key].payload = dumps(memo.result))

(***************************************************************************)
(* Keys of different argument lists                                        *)
(***************************************************************************)

\* The keyword arguments of a call as Python holds them: a dict.
KwDict(kwargs) == {kwargs[i] : i \in 1..Len(kwargs)}

\* Two calls pass the same argument list: the same positional values in
\* the same order and the same keyword arguments.
SameArguments(a, b) == a.args = b.args /\ KwDict(a.kwargs) = KwDict(b.kwargs)

\* C30: under one prefix, two calls of _generate_key with different
\* argument lists never share a key (the hashed strings differ): swapping
\* two distinct positional arguments changes the key, and so do splitting
\* one positional into two ("a|b" against "a", "b") and passing a value as
\* positional text "k=v" against keyword k=v.
C30_DifferentArgumentsDifferentKeys ==
    (kq.done /\ kq.op = "raw")
        => \A other \in RawInputs :
              (other.prefix = kq.prefix /\ ~SameArguments(other, kq))
                 => /\ _generate_key(other.prefix, other.args, other.kwargs) # kq.key
                    /\ key_string(other.args, other.kwargs) # key_string(kq.args, kq.kwargs)

====
